---- MODULE Spec2Model ----
(***************************************************************************)
(* A model of sanity-io/client-go: the transport/retry executor            *)
(* (Client.do), the query-result decoding, the get-documents, query and    *)
(* mutation builders, the webhook signature verification, the client       *)
(* options with WithOptions, and the text of a RequestError.               *)
(*                                                                         *)
(* Strings are sequences of character codes (ASCII), so that formatting,   *)
(* parsing and comparison are computed rather than assumed.                *)
(***************************************************************************)
EXTENDS Integers, Sequences, FiniteSets, TLC

VARIABLES
    \* ---- the Client (read-only after construction) ----
    clientBackoff,      \* attempt counter of Client.backoff (backoff.Backoff)
    onErrorWillRetry,   \* whether Callbacks.OnErrorWillRetry is registered
    \* ---- one executor call (Client.do) per element of Calls ----
    pc,                 \* position of the call in Client.do
    method,             \* r.method of the request builder handed to do
    rerr,               \* r.err of the request builder (a stored marshal error)
    ctxDone,            \* whether the caller's context has been cancelled
    bckoff,             \* attempt counter of the call's local copy `bckoff`
    sends,              \* requests handed to the transport and sent
    nresp,              \* responses received
    lastStatus,         \* status code of the response being handled (0: none)
    cbCount,            \* invocations of OnErrorWillRetry made by the call
    sleeps,             \* backoff sleeps performed by the call
    transportFailed,    \* the transport returned an error to this call
    bodies,             \* resp.Body of every response the call received, in order:
                        \* "open" or "closed"
    result,             \* what do returned: [kind, status]
    \* ---- webhook signature verification (auth.go) ----
    sigHeader,          \* value of the sanity-webhook-signature header
    sigPayload,         \* the payload (the request's body)
    sigSecret,          \* the webhook secret
    sigPc,              \* "ready", "sigDone", "reqDone", "read"
    sigOut,             \* what the verification returned: [valid, err]
    reqBody,            \* r.Body: [data: bytes still to be read, closed]
    downstream,         \* what a consumer reading r.Body afterwards got
    \* ---- QueryResult.Unmarshal (query.go) ----
    qrResult,           \* q.Result: [nil, raw]
    destVar,            \* the caller's destination variable: [type, val]
    destPassed,         \* what the caller passed as dest: "ptr" (&destVar) or "nil"
    dest,               \* the parameter dest inside Unmarshal: "ptr" or "nil"
    qrErr,              \* the error Unmarshal returned
    qrPc,               \* "ready", "done"
    \* ---- GetDocumentsBuilder (get_documents.go) ----
    docIDs,             \* b.docIDs
    docsPc,             \* "ready", "calling", "done"
    docsReq,            \* the URL of the request handed to the executor
    docsOut,            \* what Do returned: [err, resp]
    \* ---- QueryBuilder (query.go) ----
    qbQuery,            \* qb.query
    qbParams,           \* qb.params: a function from parameter names to Go values
    queryPc,            \* "ready", "calling", "done"
    queryReq,           \* the request handed to the executor, and the URL measured
    queryResp,          \* the decoded api.QueryResponse: [ms, result]
    queryOut,           \* what Do returned: [err, time, result]
    onQueryResult,      \* invocations of Callbacks.OnQueryResult
    \* ---- MutationBuilder and PatchBuilder (mutation builder file) ----
    mbItems,            \* mb.items: the mutation items, patches included
    mbErr,              \* mb.err: "nil" or the recorded marshal error
    mbReturnIDs,        \* mb.returnIDs
    mbReturnDocs,       \* mb.returnDocs
    mbVisibility,       \* mb.visibility
    mbTransactionID,    \* mb.transactionID
    mbRet,              \* what the last builder call returned: [kind, idx]
    mbCalls,            \* number of builder calls made so far
    mbHist,             \* history: marshal failures in order, Insert* calls that went
                        \* through, last argument of every option
    mutPc,              \* "ready", "calling", "done"
    mutReq,             \* the request handed to the executor: [method, url, body]
    mutOut,             \* what Do returned: [err, cause, results]
    mutResp,            \* the api.MutateResponse the response body decoded to
    mutResult,          \* the *MutateResult Do returned, nil with an error
    \* ---- Version.NewClient and requests.Request (client and requests files) ----
    ncArgs,             \* the arguments of NewClient: [version, projectID, dataset, opts]
    versionErr,         \* what version.Validate() returned ("none": not called)
    client,             \* what NewClient returned: [err, baseAPIURL, token, customHeaders]
    request,            \* the request builder: [path, method, params, headers, body, err]
    reqHist,            \* history: path segments since the last Path, header values
                        \* added, marshal failures, the builder as it was when the
                        \* first of them was stored, whether a later call changed it
    reqPc,              \* "new", "client", "building", "calling", "performGET",
                        \* "done", "panic"
    httpReq,            \* the *http.Request of the attempt in progress
    sentReqs,           \* the requests handed to the transport and sent, in order
    lastResp,           \* the response to the request sent last: [status, body,
                        \* readFails] (status 0: none arrived)
    reqOut,             \* what the call returned: [kind, method, url, status, body]
    errMsg,             \* what Error() of the *RequestError returned ("": not called)
    \* ---- Client.WithOptions (the client file with a single baseURL) ----
    cfgHeap,            \* the Client values in memory, by address (1: the original)
    cfgOrig,            \* history: the original as NewClient returned it
    cfgLast             \* the last operation: [op, recv, ret, err]

execVars == <<clientBackoff, onErrorWillRetry, pc, method, rerr, ctxDone, bckoff,
              sends, nresp, lastStatus, cbCount, sleeps, transportFailed, bodies, result>>

sigVars == <<sigHeader, sigPayload, sigSecret, sigPc, sigOut, reqBody, downstream>>

qrVars == <<qrResult, destVar, destPassed, dest, qrErr, qrPc>>

docVars == <<docIDs, docsPc, docsReq, docsOut>>

queryVars == <<qbQuery, qbParams, queryPc, queryReq, queryResp, queryOut, onQueryResult>>

mutVars == <<mbItems, mbErr, mbReturnIDs, mbReturnDocs, mbVisibility, mbTransactionID,
             mbRet, mbCalls, mbHist, mutPc, mutReq, mutOut, mutResp, mutResult>>

reqVars == <<ncArgs, versionErr, client, request, reqHist, reqPc, httpReq, sentReqs,
             lastResp, reqOut>>

msgVars == <<errMsg>>

cfgVars == <<cfgHeap, cfgOrig, cfgLast>>

vars == <<execVars, sigVars, qrVars, docVars, queryVars, mutVars, reqVars, msgVars, cfgVars>>

-----------------------------------------------------------------------------
(* Bounds of the model.                                                    *)

\* Requests one executor call may send before the model stops it.
MaxSends == 3

\* The executor calls that may be in progress at once on one Client.
Calls == {"call1", "call2"}

\* HTTP methods a request builder may carry (requests.Request.Method).
Methods == {"GET", "HEAD", "DELETE", "OPTIONS", "POST", "PUT", "PATCH"}

\* Status codes the server may answer with.
Statuses == {200, 299, 300, 404, 408, 500, 503, 504}

-----------------------------------------------------------------------------
(* src/utils.go                                                            *)

isStatusCodeRetriable(code) == code \in {503, 504, 408}

isMethodRetriableAny(m) == TRUE

isMethodRetriable(m) == m \in {"GET", "HEAD", "DELETE", "OPTIONS"}

\* resp.StatusCode >= 200 && resp.StatusCode <= 299
IsSuccess(code) == code >= 200 /\ code <= 299

-----------------------------------------------------------------------------
(* Client.do                                                               *)

NoResult == [kind |-> "none", status |-> 0]

\* A response arrives: its body is open.
Received(bs) == Append(bs, "open")

\* Close that leaves the body it is called on open.
CloseNot(bs, i) == bs

\* _ = resp.Body.Close() on the i-th response of the call.
Close(bs, i) == [bs EXCEPT ![i] = "closed"]

\* defer func() { _ = resp.Body.Close() }() was run once per response
\* received, each closure with the resp of its own round of the loop; when
\* do returns, every one of them runs.
RunDeferred(bs) == [i \in 1 .. Len(bs) |-> "closed"]

\* Entry of Client.do with request builder (m, e): bckoff := c.backoff copies
\* the Client's backoff value, attempt counter included.
BeginCall(c, m, e) ==
    /\ pc[c] = "idle"
    /\ pc' = [pc EXCEPT ![c] = "build"]
    /\ method' = [method EXCEPT ![c] = m]
    /\ rerr' = [rerr EXCEPT ![c] = e]
    /\ bckoff' = [bckoff EXCEPT ![c] = clientBackoff]
    /\ UNCHANGED <<clientBackoff, onErrorWillRetry, ctxDone, sends, nresp,
                   lastStatus, cbCount, sleeps, transportFailed, bodies, result>>

\* A caller invokes the executor with some request builder.
Begin(c) == \E m \in Methods, e \in BOOLEAN : BeginCall(c, m, e)

\* req, err := r.HTTPRequest(); if err != nil { return nil, err }
HTTPRequest(c) ==
    /\ pc[c] = "build"
    /\ IF rerr[c]
         THEN /\ pc' = [pc EXCEPT ![c] = "done"]
              /\ result' = [result EXCEPT ![c] = [kind |-> "buildErr", status |-> 0]]
              /\ bodies' = [bodies EXCEPT ![c] = RunDeferred(@)]
         ELSE /\ pc' = [pc EXCEPT ![c] = "send"]
              /\ UNCHANGED <<result, bodies>>
    /\ UNCHANGED <<clientBackoff, onErrorWillRetry, method, rerr, ctxDone, bckoff,
                   sends, nresp, lastStatus, cbCount, sleeps, transportFailed>>

\* What do does once c.hc.Do has returned an error: it returns the error wrapped.
TransportErrorRetried(c) ==
    /\ pc' = [pc EXCEPT ![c] = "callback"]
    /\ UNCHANGED <<result, bodies>>

TransportError(c) ==
    /\ pc' = [pc EXCEPT ![c] = "done"]
    /\ result' = [result EXCEPT ![c] = [kind |-> "transportErr", status |-> 0]]
    /\ bodies' = [bodies EXCEPT ![c] = RunDeferred(@)]

\* A transport that does not look at the context: with the context cancelled
\* c.hc.Do does not return.
DoBlocked(c) ==
    /\ pc[c] = "send"
    /\ ctxDone[c]
    /\ UNCHANGED execVars

\* c.hc.Do(req) with a context that is already cancelled: net/http returns the
\* context's error without sending the request.
DoCancelled(c) ==
    /\ pc[c] = "send"
    /\ ctxDone[c]
    /\ transportFailed' = [transportFailed EXCEPT ![c] = TRUE]
    /\ TransportError(c)
    /\ UNCHANGED <<clientBackoff, onErrorWillRetry, method, rerr, ctxDone, bckoff,
                   sends, nresp, lastStatus, cbCount, sleeps>>

\* c.hc.Do(req) sends the request and the transport fails (connection refused,
\* reset, deadline of the transport, cancellation while in flight).
DoError(c) ==
    /\ pc[c] = "send"
    /\ ~ctxDone[c]
    /\ sends[c] < MaxSends
    /\ sends' = [sends EXCEPT ![c] = @ + 1]
    /\ transportFailed' = [transportFailed EXCEPT ![c] = TRUE]
    /\ TransportError(c)
    /\ UNCHANGED <<clientBackoff, onErrorWillRetry, method, rerr, ctxDone, bckoff,
                   nresp, lastStatus, cbCount, sleeps>>

\* A loop that gives up after its second attempt: a retriable response to the
\* second request is returned as a *RequestError.
DoResponseCapped(c, s, decodeOK) ==
    /\ pc[c] = "send"
    /\ ~ctxDone[c]
    /\ sends[c] < MaxSends
    /\ sends' = [sends EXCEPT ![c] = @ + 1]
    /\ nresp' = [nresp EXCEPT ![c] = @ + 1]
    /\ lastStatus' = [lastStatus EXCEPT ![c] = s]
    /\ IF IsSuccess(s)
         THEN /\ pc' = [pc EXCEPT ![c] = "done"]
              /\ result' = [result EXCEPT ![c] =
                    [kind |-> IF decodeOK THEN "ok" ELSE "decodeErr", status |-> s]]
              /\ bodies' = [bodies EXCEPT ![c] = RunDeferred(Received(@))]
         ELSE IF ~isMethodRetriable(method[c]) \/ ~isStatusCodeRetriable(s) \/ sends[c] >= 1
         THEN /\ pc' = [pc EXCEPT ![c] = "done"]
              /\ result' = [result EXCEPT ![c] = [kind |-> "RequestError", status |-> s]]
              /\ bodies' = [bodies EXCEPT ![c] = RunDeferred(Received(@))]
         ELSE /\ pc' = [pc EXCEPT ![c] = "callback"]
              /\ bodies' = [bodies EXCEPT ![c] = Close(Received(@), Len(@) + 1)]
              /\ UNCHANGED result
    /\ UNCHANGED <<clientBackoff, onErrorWillRetry, method, rerr, ctxDone, bckoff,
                   cbCount, sleeps, transportFailed>>

\* c.hc.Do(req) sends the request and a response with status s arrives; do
\* classifies it: 2xx is decoded and returned, a retriable status of a
\* retriable method has its body closed and goes on to the retry path, anything
\* else is returned as a *RequestError by handleErrorResponse.
DoResponse(c, s, decodeOK) ==
    /\ pc[c] = "send"
    /\ ~ctxDone[c]
    /\ sends[c] < MaxSends
    /\ sends' = [sends EXCEPT ![c] = @ + 1]
    /\ nresp' = [nresp EXCEPT ![c] = @ + 1]
    /\ lastStatus' = [lastStatus EXCEPT ![c] = s]
    /\ IF IsSuccess(s)
         THEN /\ pc' = [pc EXCEPT ![c] = "done"]
              /\ result' = [result EXCEPT ![c] =
                    [kind |-> IF decodeOK THEN "ok" ELSE "decodeErr", status |-> s]]
              /\ bodies' = [bodies EXCEPT ![c] = RunDeferred(Received(@))]
         ELSE IF ~isMethodRetriable(method[c]) \/ ~isStatusCodeRetriable(s)
         THEN /\ pc' = [pc EXCEPT ![c] = "done"]
              /\ result' = [result EXCEPT ![c] = [kind |-> "RequestError", status |-> s]]
              /\ bodies' = [bodies EXCEPT ![c] = RunDeferred(Received(@))]
         ELSE /\ pc' = [pc EXCEPT ![c] = "callback"]
              /\ bodies' = [bodies EXCEPT ![c] = Close(Received(@), Len(@) + 1)]
              /\ UNCHANGED result
    /\ UNCHANGED <<clientBackoff, onErrorWillRetry, method, rerr, ctxDone, bckoff,
                   cbCount, sleeps, transportFailed>>

Do(c) == \E s \in Statuses, decodeOK \in BOOLEAN : DoResponse(c, s, decodeOK)

\* A loop that invokes the callback twice for a retried response.
CallbackTwice(c) ==
    /\ pc[c] = "callback"
    /\ pc' = [pc EXCEPT ![c] = "sleep"]
    /\ cbCount' = [cbCount EXCEPT ![c] = IF onErrorWillRetry THEN @ + 2 ELSE @]
    /\ UNCHANGED <<clientBackoff, onErrorWillRetry, method, rerr, ctxDone, bckoff,
                   sends, nresp, lastStatus, sleeps, transportFailed, bodies, result>>

\* if c.callbacks.OnErrorWillRetry != nil { c.callbacks.OnErrorWillRetry(err) }
Callback(c) ==
    /\ pc[c] = "callback"
    /\ pc' = [pc EXCEPT ![c] = "sleep"]
    /\ cbCount' = [cbCount EXCEPT ![c] = IF onErrorWillRetry THEN @ + 1 ELSE @]
    /\ UNCHANGED <<clientBackoff, onErrorWillRetry, method, rerr, ctxDone, bckoff,
                   sends, nresp, lastStatus, sleeps, transportFailed, bodies, result>>

\* bckoff.Duration() of github.com/jpillora/backoff advances the attempt counter
\* of the value it is called on. Here the value is the Client's own.
DurationShared(c) ==
    /\ clientBackoff' = clientBackoff + 1
    /\ UNCHANGED bckoff

\* Here the value is the call's local copy.
Duration(c) ==
    /\ bckoff' = [bckoff EXCEPT ![c] = @ + 1]
    /\ UNCHANGED clientBackoff

\* time.Sleep(bckoff.Duration()): the sleep does not look at the context; the
\* loop then starts over at r.HTTPRequest().
Sleep(c) ==
    /\ pc[c] = "sleep"
    /\ Duration(c)
    /\ sleeps' = [sleeps EXCEPT ![c] = @ + 1]
    /\ lastStatus' = [lastStatus EXCEPT ![c] = 0]
    /\ pc' = [pc EXCEPT ![c] = "build"]
    /\ UNCHANGED <<onErrorWillRetry, method, rerr, ctxDone, sends, nresp, cbCount,
                   transportFailed, bodies, result>>

\* The caller cancels the context of a call in progress.
Cancel(c) ==
    /\ pc[c] \notin {"idle", "done"}
    /\ ~ctxDone[c]
    /\ ctxDone' = [ctxDone EXCEPT ![c] = TRUE]
    /\ UNCHANGED <<clientBackoff, onErrorWillRetry, pc, method, rerr, bckoff, sends,
                   nresp, lastStatus, cbCount, sleeps, transportFailed, bodies, result>>

\* The caller has its result; the goroutine is free for the next call.
Return(c) ==
    /\ pc[c] = "done"
    /\ pc' = [pc EXCEPT ![c] = "idle"]
    /\ method' = [method EXCEPT ![c] = "GET"]
    /\ rerr' = [rerr EXCEPT ![c] = FALSE]
    /\ ctxDone' = [ctxDone EXCEPT ![c] = FALSE]
    /\ bckoff' = [bckoff EXCEPT ![c] = 0]
    /\ sends' = [sends EXCEPT ![c] = 0]
    /\ nresp' = [nresp EXCEPT ![c] = 0]
    /\ lastStatus' = [lastStatus EXCEPT ![c] = 0]
    /\ cbCount' = [cbCount EXCEPT ![c] = 0]
    /\ sleeps' = [sleeps EXCEPT ![c] = 0]
    /\ transportFailed' = [transportFailed EXCEPT ![c] = FALSE]
    /\ bodies' = [bodies EXCEPT ![c] = <<>>]
    /\ result' = [result EXCEPT ![c] = NoResult]
    /\ UNCHANGED <<clientBackoff, onErrorWillRetry>>

\* Version.NewClient: backoff.Backoff{Jitter: true} has attempt counter 0; every
\* call slot is idle. WithCallbacks may or may not have registered the callback.
ExecInit ==
    /\ clientBackoff = 0
    /\ onErrorWillRetry \in BOOLEAN
    /\ pc = [c \in Calls |-> "idle"]
    /\ method = [c \in Calls |-> "GET"]
    /\ rerr = [c \in Calls |-> FALSE]
    /\ ctxDone = [c \in Calls |-> FALSE]
    /\ bckoff = [c \in Calls |-> 0]
    /\ sends = [c \in Calls |-> 0]
    /\ nresp = [c \in Calls |-> 0]
    /\ lastStatus = [c \in Calls |-> 0]
    /\ cbCount = [c \in Calls |-> 0]
    /\ sleeps = [c \in Calls |-> 0]
    /\ transportFailed = [c \in Calls |-> FALSE]
    /\ bodies = [c \in Calls |-> <<>>]
    /\ result = [c \in Calls |-> NoResult]

-----------------------------------------------------------------------------
(* Strings: sequences of character codes.                                  *)

SetMin(S) == CHOOSE x \in S : \A y \in S : x <= y

SetMax(S) == CHOOSE x \in S : \A y \in S : x >= y

Digits == 48 .. 57

\* unicode.IsSpace on the characters the model uses: \t \n \v \f \r and space.
WhiteSpace == {9, 10, 11, 12, 13, 32}

\* strings.TrimSpace
TrimSpace(s) ==
    LET keep == {i \in 1 .. Len(s) : s[i] \notin WhiteSpace}
    IN  IF keep = {} THEN <<>> ELSE SubSeq(s, SetMin(keep), SetMax(keep))

\* The number of consecutive characters of s, from position i on, that are in class.
RECURSIVE RunLen(_, _, _)
RunLen(s, i, class) ==
    IF i > Len(s) \/ s[i] \notin class THEN 0 ELSE 1 + RunLen(s, i + 1, class)

\* A non-negative Go int is held as its decimal digits without leading zeros:
\* the value and its %d rendering are then the same sequence.
StripZeros(ds) ==
    LET nz == {i \in 1 .. Len(ds) : ds[i] # 48}
    IN  IF nz = {} THEN <<48>> ELSE SubSeq(ds, SetMin(nz), Len(ds))

\* a < b on such values.
DecLess(a, b) ==
    \/ Len(a) < Len(b)
    \/ /\ Len(a) = Len(b)
       /\ \E i \in 1 .. Len(a) :
             /\ a[i] < b[i]
             /\ \A j \in 1 .. i - 1 : a[j] = b[j]

\* math.MaxInt64, 9223372036854775807: the largest value strconv.Atoi returns.
MaxInt == <<57,50,50,51,51,55,50,48,51,54,56,53,52,55,55,53,56,48,55>>

\* strconv.Atoi on a string of digits: the value, or a range error.
Atoi(ds) ==
    LET v == StripZeros(ds)
    IN  IF DecLess(MaxInt, v) THEN [err |-> TRUE, value |-> MaxInt]
                              ELSE [err |-> FALSE, value |-> v]

-----------------------------------------------------------------------------
(* src/auth.go                                                             *)

\* MinimumTimestamp = 1609459200000
MinimumTimestamp == <<49,54,48,57,52,53,57,50,48,48,48,48,48>>

\* 1609459200: the same instant in seconds.
MinimumTimestampSeconds == <<49,54,48,57,52,53,57,50,48,48>>

NoMatch == [ok |-> FALSE, ts |-> <<>>, sig |-> <<>>]

\* The same expression without its closing $: ^t=(\d+)[, ]+v1=([^, ]+)
SignatureMatchUnanchored(s) ==
    LET d    == RunLen(s, 3, Digits)
        k    == RunLen(s, 3 + d, {44, 32})
        v    == 3 + d + k
        n    == RunLen(s, v + 3, (0 .. 127) \ {44, 32})
    IN  IF /\ Len(s) >= 2
           /\ SubSeq(s, 1, 2) = <<116, 61>>
           /\ d >= 1
           /\ k >= 1
           /\ Len(s) >= v + 2
           /\ SubSeq(s, v, v + 2) = <<118, 49, 61>>
           /\ n >= 1
        THEN [ok |-> TRUE, ts |-> SubSeq(s, 3, 2 + d), sig |-> SubSeq(s, v + 3, v + 2 + n)]
        ELSE NoMatch

\* signatureHeaderRegex.FindStringSubmatch(s) for ^t=(\d+)[, ]+v1=([^, ]+)$ :
\* "t=", the longest run of digits, the longest run of ',' and ' ', "v1=", and
\* a non-empty rest holding neither ',' nor ' '. The classes are disjoint, so
\* no shorter run can match.
SignatureMatch(s) ==
    LET d    == RunLen(s, 3, Digits)
        k    == RunLen(s, 3 + d, {44, 32})
        v    == 3 + d + k
        rest == SubSeq(s, v + 3, Len(s))
    IN  IF /\ Len(s) >= 2
           /\ SubSeq(s, 1, 2) = <<116, 61>>
           /\ d >= 1
           /\ k >= 1
           /\ Len(s) >= v + 2
           /\ SubSeq(s, v, v + 2) = <<118, 49, 61>>
           /\ Len(rest) >= 1
           /\ \A i \in 1 .. Len(rest) : rest[i] \notin {44, 32}
        THEN [ok |-> TRUE, ts |-> SubSeq(s, 3, 2 + d), sig |-> rest]
        ELSE NoMatch

decodeSignatureHeader(signaturePayload) ==
    LET match == SignatureMatch(TrimSpace(signaturePayload))
        ts    == Atoi(match.ts)
    IN  IF ~match.ok
          THEN [err |-> "invalid signature", hashedPayload |-> <<>>, timestamp |-> <<48>>]
        ELSE IF ts.err
          THEN [err |-> "value out of range", hashedPayload |-> <<>>, timestamp |-> <<48>>]
        ELSE [err |-> "none", hashedPayload |-> match.sig, timestamp |-> ts.value]

\* fmt.Sprintf("%d.%s", timestamp, payload)
SignedMessage(payload, timestamp) == timestamp \o <<46>> \o payload

\* base64.RawURLEncoding of HMAC-SHA256(secret, message). SHA-256 is not
\* computed: the MAC is idealised as an injective function of key and message
\* whose value is a non-empty string over the base64url alphabet without
\* padding. Keys and payloads of the model are alphanumeric; '.' is written '-'
\* and '_' parts key from message.
generateHS256Signature(payload, timestamp, secret) ==
    LET msg == SignedMessage(payload, timestamp)
    IN  secret \o <<95>> \o [i \in 1 .. Len(msg) |-> IF msg[i] = 46 THEN 45 ELSE msg[i]]

\* fmt.Sprintf(`t=%d,v1=%s`, timestamp, signature)
encodeSignatureHeader(payload, timestamp, secret) ==
    <<116, 61>> \o timestamp \o <<44, 118, 49, 61>>
        \o generateHS256Signature(payload, timestamp, secret)

\* timestamp < MinimumTimestamp, with the floor taken in seconds.
BelowMinimumSeconds(timestamp) == DecLess(timestamp, MinimumTimestampSeconds)

\* timestamp < MinimumTimestamp
BelowMinimum(timestamp) == DecLess(timestamp, MinimumTimestamp)

IsValidSignature(payload, signature, webhookSecret) ==
    LET d == decodeSignatureHeader(signature)
    IN  IF d.err # "none"
          THEN [valid |-> FALSE, err |-> d.err]
        ELSE IF BelowMinimum(d.timestamp)
          THEN [valid |-> FALSE, err |-> "invalid signature timestamp"]
        ELSE IF signature # encodeSignatureHeader(payload, d.timestamp, webhookSecret)
          THEN [valid |-> FALSE, err |-> "none"]
        ELSE [valid |-> TRUE, err |-> "none"]

\* r.Body is left as it is after io.ReadAll and Close: read to its end, closed.
SpliceBodyOmitted(body) == [data |-> <<>>, closed |-> TRUE]

\* r.Body = io.NopCloser(bytes.NewBuffer(body))
SpliceBody(body) == [data |-> body, closed |-> FALSE]

\* A caller verifies a header value it holds.
VerifySignature ==
    /\ sigPc = "ready"
    /\ sigOut' = IsValidSignature(sigPayload, sigHeader, sigSecret)
    /\ sigPc' = "sigDone"
    /\ UNCHANGED <<sigHeader, sigPayload, sigSecret, reqBody, downstream>>

\* IsValidRequest(r, webhookSecret). io.ReadAll may fail after having consumed
\* part of the body, and Close may fail; either returns before the body is put
\* back. The signature error is wrapped ("validate signature: ...").
IsValidRequest(readFails, closeFails, consumed) ==
    /\ sigPc = "ready"
    /\ sigPc' = "reqDone"
    /\ IF readFails
         THEN /\ sigOut' = [valid |-> FALSE, err |-> "parse body"]
              /\ reqBody' = [data |-> SubSeq(reqBody.data, consumed + 1, Len(reqBody.data)),
                             closed |-> FALSE]
         ELSE IF closeFails
         THEN /\ sigOut' = [valid |-> FALSE, err |-> "close body"]
              /\ reqBody' = [data |-> <<>>, closed |-> TRUE]
         ELSE LET body == reqBody.data
                  v    == IsValidSignature(body, sigHeader, sigSecret)
              IN  /\ reqBody' = SpliceBody(body)
                  /\ sigOut' = IF v.err # "none"
                                 THEN [valid |-> FALSE, err |-> "validate signature"]
                                 ELSE v
    /\ UNCHANGED <<sigHeader, sigPayload, sigSecret, downstream>>

VerifyRequest ==
    \E readFails, closeFails \in BOOLEAN, consumed \in 0 .. Len(reqBody.data) :
        IsValidRequest(readFails, closeFails, consumed)

\* A downstream consumer reads r.Body to its end.
ReadBody ==
    /\ sigPc = "reqDone"
    /\ sigPc' = "read"
    /\ downstream' = IF reqBody.closed THEN <<>> ELSE reqBody.data
    /\ reqBody' = [reqBody EXCEPT !.data = <<>>]
    /\ UNCHANGED <<sigHeader, sigPayload, sigSecret, sigOut>>

\* ---- the inputs of the verification ----

\* "resume", "invalid": payloads
Payloads == {<<114>>, <<105, 110>>}

\* The secret in use, "k", and another one, "w".
Secrets == {<<107>>}

OtherSecrets == {<<119>>}

TsTest == <<49,54,51,51,53,49,57,56,49,49,49,50,57>>      \* 1633519811129

TsBelow == <<49,54,48,57,52,53,57,49,57,57,57,57,57>>     \* 1609459199999

TsOld == <<49,53,48,48,48,48,48,48,48,48,48,48,48>>       \* 1500000000000

TsPadded == <<48>> \o TsTest                              \* 01633519811129

TsHuge == <<57,57,57,57,57,57,57,57,57,57,57,57,57,57,57,57,57,57,57,57>>

\* What may stand where the timestamp belongs: the above, nothing, "16a".
TimestampTexts ==
    {TsTest, MinimumTimestamp, TsBelow, TsOld, TsPadded, TsHuge, <<>>, <<49, 54, 97>>}

\* What may stand where the signature belongs, for timestamp text t: the MAC
\* of either payload under either secret, nothing, "ab", "a,b".
SignatureTexts(t) ==
    {generateHS256Signature(p, StripZeros(t), k) :
        p \in Payloads, k \in Secrets \cup OtherSecrets}
    \cup {<<>>, <<97, 44, 98>>}

\* Header values: [ ]["t="]<timestamp>[separators]["v1="]<signature>[trailer]
Headers ==
    UNION { { lead \o tpart \o t \o sep \o vpart \o sg \o trail :
                lead  \in {<<>>, <<32>>},
                tpart \in {<<116, 61>>, <<>>},
                vpart \in {<<118, 49, 61>>, <<>>},
                sep   \in {<<44>>, <<32>>, <<44, 32>>, <<>>},
                trail \in {<<>>, <<32>>, <<44, 120>>},
                sg    \in SignatureTexts(t) } : t \in TimestampTexts }

SigInit ==
    /\ sigHeader \in Headers
    /\ sigPayload \in Payloads
    /\ sigSecret \in Secrets
    /\ sigPc = "ready"
    /\ sigOut = [valid |-> FALSE, err |-> "none"]
    /\ reqBody = [data |-> sigPayload, closed |-> FALSE]
    /\ downstream = <<>>

\* The verification is not in use.
SigIdle ==
    /\ sigHeader = <<>>
    /\ sigPayload = <<>>
    /\ sigSecret = <<>>
    /\ sigPc = "off"
    /\ sigOut = [valid |-> FALSE, err |-> "none"]
    /\ reqBody = [data |-> <<>>, closed |-> FALSE]
    /\ downstream = <<>>

-----------------------------------------------------------------------------
(* src/query.go: QueryResult.Unmarshal                                     *)

\* A Go value is held as its type and its JSON rendering.
JNull == <<110, 117, 108, 108>>         \* null

JTrue == <<116, 114, 117, 101>>         \* true

JFalse == <<102, 97, 108, 115, 101>>    \* false

\* reflect.Zero of a destination type.
Zero(type) ==
    CASE type = "int"    -> <<48>>          \* 0
      [] type = "bool"   -> JFalse
      [] type = "string" -> <<34, 34>>      \* ""

\* The kind of JSON value a text holds, of the texts the model uses: null, a
\* boolean, digits, a quoted string of letters; anything else is a syntax error.
JSONKind(text) ==
    IF text = JNull THEN "null"
    ELSE IF text \in {JTrue, JFalse} THEN "bool"
    ELSE IF Len(text) >= 1 /\ \A i \in 1 .. Len(text) : text[i] \in Digits THEN "int"
    ELSE IF /\ Len(text) >= 2
            /\ text[1] = 34
            /\ text[Len(text)] = 34
            /\ \A i \in 2 .. Len(text) - 1 : text[i] \in 97 .. 122
         THEN "string"
    ELSE "invalid"

\* json.Unmarshal(data, dest) for dest = &v, v of a scalar type: the value
\* after the call and the error. null leaves v as it is; a value of another
\* kind is an UnmarshalTypeError and leaves v as it is.
jsonUnmarshal(data, v) ==
    LET kind == JSONKind(data)
    IN  IF kind = "invalid" THEN [v |-> v, err |-> "SyntaxError"]
        ELSE IF kind = "null" THEN [v |-> v, err |-> "none"]
        ELSE IF kind # v.type THEN [v |-> v, err |-> "UnmarshalTypeError"]
        ELSE [v |-> [type |-> v.type, val |-> data], err |-> "none"]

\* ---- the inputs of Unmarshal ----

\* q.Result: absent, or the raw JSON null, true, 0, 7, 007 (not JSON), "a", {
QueryResults ==
    {[nil |-> TRUE, raw |-> <<>>]}
    \cup {[nil |-> FALSE, raw |-> t] :
            t \in {JNull, JTrue, <<48>>, <<55>>, <<34, 97, 34>>, <<123>>}}

\* Destination variables: an int, a bool or a string, zero or not.
DestValues ==
    {[type |-> "int", val |-> <<48>>], [type |-> "int", val |-> <<53>>],
     [type |-> "bool", val |-> JFalse], [type |-> "bool", val |-> JTrue],
     [type |-> "string", val |-> <<34, 34>>], [type |-> "string", val |-> <<34, 98, 34>>]}

\* The branch q.Result == nil: v := reflect.ValueOf(&dest) is a pointer to the
\* parameter, so reflect.Indirect(v) is the parameter dest itself, of type
\* interface{}, and i.Set(reflect.Zero(i.Type())) stores a nil interface in it.
\* What dest pointed to is not written.
UnmarshalNil ==
    /\ dest' = "nil"
    /\ UNCHANGED destVar
    /\ qrErr' = "none"

\* The branch json.Unmarshal([]byte(*q.Result), dest).
UnmarshalRaw ==
    /\ UNCHANGED dest
    /\ IF dest = "nil"
         THEN /\ qrErr' = "InvalidUnmarshalError"
              /\ UNCHANGED destVar
         ELSE LET r == jsonUnmarshal(qrResult.raw, destVar)
              IN  /\ destVar' = r.v
                  /\ qrErr' = r.err

\* func (q *QueryResult) Unmarshal(dest interface{}) error
Unmarshal ==
    /\ qrPc = "ready"
    /\ qrPc' = "done"
    /\ IF qrResult.nil THEN UnmarshalNil ELSE UnmarshalRaw
    /\ UNCHANGED <<qrResult, destPassed>>

\* The caller takes the result and decodes the next one.
UnmarshalAgain ==
    /\ qrPc = "done"
    /\ qrPc' = "ready"
    /\ dest' = destPassed
    /\ qrErr' = "none"
    /\ \E r \in QueryResults : qrResult' = r
    /\ UNCHANGED <<destVar, destPassed>>

QrInit ==
    /\ qrResult \in QueryResults
    /\ destVar \in DestValues
    /\ destPassed \in {"ptr", "nil"}
    /\ dest = destPassed
    /\ qrErr = "none"
    /\ qrPc = "ready"

\* No result is being decoded.
QrIdle ==
    /\ qrResult = [nil |-> TRUE, raw |-> <<>>]
    /\ destVar = [type |-> "int", val |-> <<48>>]
    /\ destPassed = "nil"
    /\ dest = "nil"
    /\ qrErr = "none"
    /\ qrPc = "off"

-----------------------------------------------------------------------------
(* src/internal/requests/requests.go and src/get_documents.go              *)

\* const maxGETRequestURLLength = 1024
maxGETRequestURLLength == 1024

\* strings.Join(elems, sep)
RECURSIVE Join(_, _)
Join(elems, sep) ==
    IF Len(elems) = 0 THEN <<>>
    ELSE IF Len(elems) = 1 THEN elems[1]
    ELSE elems[1] \o sep \o Join(Tail(elems), sep)

\* One round of the loop of AppendPath: a '/' is put before elem when the path
\* is empty or does not end in '/', and elem is not empty and does not begin
\* with '/'.
AppendElem(path, elem) ==
    IF /\ (path = <<>> \/ path[Len(path)] # 47)
       /\ (Len(elem) > 0 /\ elem[1] # 47)
    THEN path \o <<47>> \o elem
    ELSE path \o elem

\* func (b *Request) AppendPath(elems ...string) *Request
RECURSIVE AppendPath(_, _)
AppendPath(path, elems) ==
    IF Len(elems) = 0 THEN path
    ELSE AppendPath(AppendElem(path, elems[1]), Tail(elems))

HexDigit(n) == IF n < 10 THEN 48 + n ELSE 55 + n

\* Characters net/url leaves as they are in a path: letters, digits, -_.~ and
\* $&+,/:;=@
PathSafe == (48 .. 57) \cup (65 .. 90) \cup (97 .. 122)
              \cup {45, 95, 46, 126, 36, 38, 43, 44, 47, 58, 59, 61, 64}

\* url.URL.EscapedPath of a path set through u.Path: %XX for every other byte.
\* (Halved rather than walked, to keep the evaluation shallow.)
RECURSIVE EscapedPath(_)
EscapedPath(path) ==
    IF Len(path) = 0 THEN <<>>
    ELSE IF Len(path) = 1
      THEN IF path[1] \in PathSafe
             THEN path
             ELSE <<37, HexDigit(path[1] \div 16), HexDigit(path[1] % 16)>>
    ELSE LET h == Len(path) \div 2
         IN  EscapedPath(SubSeq(path, 1, h)) \o EscapedPath(SubSeq(path, h + 1, Len(path)))

\* c.baseAPIURL of VersionV1.NewClient("p", "ds"): https://p.api.sanity.io/v1
BaseAPIURL ==
    [scheme |-> <<104, 116, 116, 112, 115>>,
     host   |-> <<112, 46, 97, 112, 105, 46, 115, 97, 110, 105, 116, 121, 46, 105, 111>>,
     path   |-> <<47, 118, 49>>]

\* c.dataset: "ds"
Dataset == <<100, 115>>

\* func (b *Request) EncodeURL() string, for a request without parameters:
\* u := b.baseURL; u.Path += b.path; u.String()
EncodeURL(baseURL, path) ==
    baseURL.scheme \o <<58, 47, 47>> \o baseURL.host \o EscapedPath(baseURL.path \o path)

\* buildGET as a variant that also refuses a URL of exactly the limit.
buildGETInclusive(ids) ==
    LET path == AppendPath(<<>>, <<<<100, 97, 116, 97, 47, 100, 111, 99>>, Dataset,
                                   Join(ids, <<44>>)>>)
        url  == EncodeURL(BaseAPIURL, path)
    IN  IF Len(ids) = 0
          THEN [err |-> "InvalidRequestError: no document ID specified", url |-> <<>>,
                send |-> FALSE]
        ELSE IF Len(url) >= maxGETRequestURLLength
          THEN [err |-> "InvalidRequestError: max URL length exceeded", url |-> <<>>,
                send |-> FALSE]
        ELSE [err |-> "none", url |-> url, send |-> TRUE]

\* func (b *GetDocumentsBuilder) buildGET() (*requests.Request, error):
\* AppendPath("data/doc", b.c.dataset, strings.Join(b.docIDs, ","))
buildGET(ids) ==
    LET path == AppendPath(<<>>, <<<<100, 97, 116, 97, 47, 100, 111, 99>>, Dataset,
                                   Join(ids, <<44>>)>>)
        url  == EncodeURL(BaseAPIURL, path)
    IN  IF Len(ids) = 0
          THEN [err |-> "InvalidRequestError: no document ID specified", url |-> <<>>,
                send |-> FALSE]
        ELSE IF Len(url) > maxGETRequestURLLength
          THEN [err |-> "InvalidRequestError: max URL length exceeded", url |-> <<>>,
                send |-> FALSE]
        ELSE [err |-> "none", url |-> url, send |-> TRUE]

\* ---- the inputs of GetDocuments ----

\* The longest document id whose URL is still within the limit: the URL is
\* https://p.api.sanity.io/v1/data/doc/ds/<id>, 39 characters before the id.
IdAtLimit == [i \in 1 .. (maxGETRequestURLLength - 39) |-> 120]

\* Document ids: "", "d1", "a b", the longest id within the limit, one longer,
\* and the 1024 times 'x' of the test.
DocIDs ==
    {<<>>, <<100, 49>>, <<97, 32, 98>>, IdAtLimit, IdAtLimit \o <<120>>,
     [i \in 1 .. 1024 |-> 120]}

\* GetDocuments(docIDs...) with no, one or two ids.
DocIDLists == {<<>>} \cup {<<a>> : a \in DocIDs} \cup {<<a, b>> : a, b \in DocIDs}

\* The goroutine that runs GetDocumentsBuilder.Do.
DocsCall == "call1"

\* Do up to the executor: buildGET, and on success b.c.do(ctx, req, &resp).
GetDocumentsDo ==
    /\ docsPc = "ready"
    /\ LET g == buildGET(docIDs)
       IN  IF g.send
             THEN /\ BeginCall(DocsCall, "GET", FALSE)
                  /\ docsPc' = "calling"
                  /\ docsReq' = g.url
                  /\ UNCHANGED docsOut
             ELSE /\ docsPc' = "done"
                  /\ docsOut' = [err |-> g.err, resp |-> "nil"]
                  /\ UNCHANGED <<docsReq, execVars>>
    /\ UNCHANGED docIDs

\* Do after the executor has returned: its error, or the decoded response.
GetDocumentsReturn ==
    /\ docsPc = "calling"
    /\ pc[DocsCall] = "done"
    /\ docsPc' = "done"
    /\ docsOut' = IF result[DocsCall].kind = "ok"
                    THEN [err |-> "none", resp |-> "decoded"]
                    ELSE [err |-> result[DocsCall].kind, resp |-> "nil"]
    /\ UNCHANGED <<docIDs, docsReq, execVars>>

DocsInit ==
    /\ docIDs \in DocIDLists
    /\ docsPc = "ready"
    /\ docsReq = <<>>
    /\ docsOut = [err |-> "none", resp |-> "nil"]

\* No documents are being fetched.
DocsIdle ==
    /\ docIDs = <<>>
    /\ docsPc = "off"
    /\ docsReq = <<>>
    /\ docsOut = [err |-> "none", resp |-> "nil"]

-----------------------------------------------------------------------------
(* src/query.go: QueryBuilder, and the query string of a request URL       *)

\* Lexicographic order of two byte strings (sort.Strings on the keys).
SeqLess(a, b) ==
    \/ Len(a) < Len(b) /\ SubSeq(b, 1, Len(a)) = a
    \/ \E k \in 1 .. SetMin({Len(a), Len(b)}) :
           /\ SubSeq(a, 1, k - 1) = SubSeq(b, 1, k - 1)
           /\ a[k] < b[k]

\* Characters url.QueryEscape leaves as they are: letters, digits and -_.~
QuerySafe == (48 .. 57) \cup (65 .. 90) \cup (97 .. 122) \cup {45, 95, 46, 126}

\* url.QueryEscape: ' ' becomes '+', every other unsafe byte becomes %XX.
\* (Halved rather than walked, to keep the evaluation shallow.)
RECURSIVE QueryEscape(_)
QueryEscape(s) ==
    IF Len(s) = 0 THEN <<>>
    ELSE IF Len(s) = 1
      THEN IF s[1] \in QuerySafe THEN s
           ELSE IF s[1] = 32 THEN <<43>>
           ELSE <<37, HexDigit(s[1] \div 16), HexDigit(s[1] % 16)>>
    ELSE LET h == Len(s) \div 2
         IN  QueryEscape(SubSeq(s, 1, h)) \o QueryEscape(SubSeq(s, h + 1, Len(s)))

\* url.Values.Encode: the entries key=value, both escaped, sorted by key and
\* joined by '&'. params is the sequence of [key, val] in the order of the
\* calls of Param; every key of a builder of this package is added once.
RECURSIVE ValuesEncode(_)
ValuesEncode(params) ==
    IF Len(params) = 0 THEN <<>>
    ELSE LET i == CHOOSE j \in 1 .. Len(params) :
                      \A k \in 1 .. Len(params) :
                          k # j => SeqLess(params[j].key, params[k].key)
             rest == SubSeq(params, 1, i - 1) \o SubSeq(params, i + 1, Len(params))
             entry == QueryEscape(params[i].key) \o <<61>> \o QueryEscape(params[i].val)
         IN  IF Len(rest) = 0 THEN entry ELSE entry \o <<38>> \o ValuesEncode(rest)

\* func (b *Request) EncodeURL() string, with parameters:
\* if b.params != nil { u.RawQuery = b.params.Encode() }; u.String() writes
\* '?' and the query when it is not empty.
EncodeURLQuery(baseURL, path, params) ==
    IF Len(params) = 0 THEN EncodeURL(baseURL, path)
    ELSE EncodeURL(baseURL, path) \o <<63>> \o ValuesEncode(params)

\* One byte of a JSON string as json.Marshal writes it: '"' and '\' get a
\* backslash, and '<', '>', '&' become the escapes u003c, u003e, u0026.
JSONStringByte(ch) ==
    IF ch \in {34, 92} THEN <<92, ch>>
    ELSE IF ch \in {60, 62, 38}
      THEN <<92, 117, 48, 48, HexDigit(ch \div 16) , HexDigit(ch % 16) + (IF ch % 16 > 9 THEN 32 ELSE 0)>>
    ELSE <<ch>>

RECURSIVE JSONStringBody(_)
JSONStringBody(s) ==
    IF Len(s) = 0 THEN <<>> ELSE JSONStringByte(s[1]) \o JSONStringBody(Tail(s))

\* json.Marshal(v) of a Go value [kind, text]: an integer gives its digits, a
\* string gives the quoted and escaped text, a channel is an error.
jsonMarshal(v) ==
    IF v.kind = "int" THEN [err |-> FALSE, text |-> v.text]
    ELSE IF v.kind = "string"
      THEN [err |-> FALSE, text |-> <<34>> \o JSONStringBody(v.text) \o <<34>>]
    ELSE [err |-> TRUE, text |-> <<>>]

\* The path of a query request: AppendPath("data/query", qb.c.dataset)
QueryPath == AppendPath(<<>>, <<<<100, 97, 116, 97, 47, 113, 117, 101, 114, 121>>, Dataset>>)

NoBody == [present |-> FALSE, query |-> <<>>, params |-> <<>>]

\* func (qb *QueryBuilder) buildGET(): Param("query", qb.query), then for
\* every parameter, in the order `order` in which the map happens to be
\* ranged over, Param("$"+p, string(json.Marshal(v))).
QueryBuildGET(query, params, order) ==
    [err    |-> \E p \in DOMAIN params : jsonMarshal(params[p]).err,
     method |-> "GET",
     path   |-> QueryPath,
     params |-> <<[key |-> <<113, 117, 101, 114, 121>>, val |-> query]>> \o
                [i \in 1 .. Len(order) |->
                    [key |-> <<36>> \o order[i], val |-> jsonMarshal(params[order[i]]).text]],
     body   |-> NoBody]

\* buildPOST with an empty request, as a variant that loses the parameters.
QueryBuildPOSTNoParams(query, params, order) ==
    [err    |-> \E p \in DOMAIN params : jsonMarshal(params[p]).err,
     method |-> "POST",
     path   |-> QueryPath,
     params |-> <<>>,
     body   |-> [present |-> TRUE, query |-> query, params |-> <<>>]]

\* func (qb *QueryBuilder) buildPOST(): api.QueryRequest{Query, Params} with
\* the raw JSON of every parameter, given to MarshalBody; no Param is called.
\* The body is held as the JSON object it encodes: its `query` member and the
\* members of `params` as [key, val] with val the raw JSON text.
QueryBuildPOST(query, params, order) ==
    [err    |-> \E p \in DOMAIN params : jsonMarshal(params[p]).err,
     method |-> "POST",
     path   |-> QueryPath,
     params |-> <<>>,
     body   |-> [present |-> TRUE,
                 query   |-> query,
                 params  |-> [i \in 1 .. Len(order) |->
                                [key |-> order[i], val |-> jsonMarshal(params[order[i]]).text]]]]

\* len(req.EncodeURL()) >= maxGETRequestURLLength, a variant of the test below.
ExceedsLimitInclusive(url) == Len(url) >= maxGETRequestURLLength

\* len(req.EncodeURL()) > maxGETRequestURLLength
ExceedsLimit(url) == Len(url) > maxGETRequestURLLength

\* The orders in which a range over a map with these keys can visit them.
Orders(keys) ==
    {o \in [1 .. Cardinality(keys) -> keys] : \A i, j \in DOMAIN o : i # j => o[i] # o[j]}

\* The goroutine that runs QueryBuilder.Do.
QueryCall == "call1"

NoRequest == [method |-> "", url |-> <<>>, measured |-> <<>>, body |-> NoBody]

NoQueryResponse == [ms |-> 0, result |-> "nil"]

NoQueryResult == [err |-> "none", set |-> FALSE, time |-> 0, result |-> "nil"]

\* func (qb *QueryBuilder) Param(name string, val interface{}) *QueryBuilder
Param(name, val) ==
    /\ queryPc = "ready"
    /\ qbParams' = [p \in DOMAIN qbParams \cup {name} |->
                       IF p = name THEN val ELSE qbParams[p]]
    /\ UNCHANGED <<qbQuery, queryPc, queryReq, queryResp, queryOut, onQueryResult>>

\* Do up to the executor: buildGET, the length test with buildPOST behind it,
\* then qb.c.do(ctx, req, &resp). The URL of the request is the one
\* HTTPRequest derives from the builder handed over.
QueryDo ==
    /\ queryPc = "ready"
    /\ \E order \in Orders(DOMAIN qbParams), order2 \in Orders(DOMAIN qbParams) :
         LET g        == QueryBuildGET(qbQuery, qbParams, order)
             measured == EncodeURLQuery(BaseAPIURL, g.path, g.params)
             req      == IF ExceedsLimit(measured)
                           THEN QueryBuildPOST(qbQuery, qbParams, order2) ELSE g
         IN  IF g.err
               THEN /\ queryPc' = "done"
                    /\ queryOut' = [NoQueryResult EXCEPT !.err = "marshaling parameter"]
                    /\ UNCHANGED <<queryReq, execVars>>
               ELSE /\ BeginCall(QueryCall, req.method, FALSE)
                    /\ queryPc' = "calling"
                    /\ queryReq' = [method   |-> req.method,
                                    url      |-> EncodeURLQuery(BaseAPIURL, req.path, req.params),
                                    measured |-> measured,
                                    body     |-> req.body]
                    /\ UNCHANGED queryOut
    /\ UNCHANGED <<qbQuery, qbParams, queryResp, onQueryResult>>

\* Do after the executor has returned: its error, or a QueryResult made of
\* resp.Ms and resp.Result, which is also given to OnQueryResult.
QueryReturn ==
    /\ queryPc = "calling"
    /\ pc[QueryCall] = "done"
    /\ queryPc' = "done"
    /\ IF result[QueryCall].kind = "ok"
         THEN \E ms \in {0, 12}, r \in {"nil", "raw"} :
                /\ queryResp' = [ms |-> ms, result |-> r]
                /\ queryOut' = [err |-> "none", set |-> TRUE, time |-> ms, result |-> r]
                /\ onQueryResult' = onQueryResult + 1
         ELSE /\ queryOut' = [NoQueryResult EXCEPT !.err = result[QueryCall].kind]
              /\ UNCHANGED <<queryResp, onQueryResult>>
    /\ UNCHANGED <<qbQuery, qbParams, queryReq, execVars>>

\* ---- the inputs of Query ----

\* n times the letter x
Filler(n) == [i \in 1 .. n |-> 120]

\* The URL of a query is https://p.api.sanity.io/v1/data/query/ds?query=<q>,
\* 47 characters before the query. Queries: *[0]; fillers that put the URL at
\* the limit and one over it, alone and with the parameter a=1 (7 characters
\* more); and a filler ending in '*', three characters once escaped.
Queries ==
    {<<42, 91, 48, 93>>,
     Filler(maxGETRequestURLLength - 47), Filler(maxGETRequestURLLength - 46),
     Filler(maxGETRequestURLLength - 54), Filler(maxGETRequestURLLength - 53),
     Filler(maxGETRequestURLLength - 49) \o <<42>>}

ParamNames == {<<97>>, <<98>>}

\* Go values given to Param: 1, "hi" and a channel, which does not marshal.
ParamValues ==
    {[kind |-> "int", text |-> <<49>>], [kind |-> "string", text |-> <<104, 105>>],
     [kind |-> "chan", text |-> <<>>]}

\* c.Query(query): a builder without parameters.
QueryInit ==
    /\ qbQuery \in Queries
    /\ qbParams = << >>
    /\ queryPc = "ready"
    /\ queryReq = NoRequest
    /\ queryResp = NoQueryResponse
    /\ queryOut = NoQueryResult
    /\ onQueryResult = 0

\* No query is being made.
QueryIdle ==
    /\ qbQuery = <<>>
    /\ qbParams = << >>
    /\ queryPc = "off"
    /\ queryReq = NoRequest
    /\ queryResp = NoQueryResponse
    /\ queryOut = NoQueryResult
    /\ onQueryResult = 0

-----------------------------------------------------------------------------
(* MutationBuilder and PatchBuilder, with the api types they fill in       *)

\* Builder calls made on one MutationBuilder and its patches before Do.
MaxChain == 3

\* A *json.RawMessage: nil, or the raw JSON text.
NilRaw == [nil |-> TRUE, raw |-> <<>>]

RawMessage(text) == [nil |-> FALSE, raw |-> text]

\* A Go map that has not been made.
NilMap == [nil |-> TRUE, m |-> << >>]

\* A *api.Delete, *api.Insert, *api.Patch that is nil.
NilDelete == [nil |-> TRUE, id |-> <<>>]

NilInsert == [nil |-> TRUE, before |-> <<>>, after |-> <<>>, replace |-> <<>>, items |-> <<>>]

NilPatch ==
    [nil |-> TRUE, id |-> <<>>, ifRevisionID |-> <<>>, query |-> <<>>, set |-> NilMap,
     setIfMissing |-> NilMap, unset |-> <<>>, insert |-> NilInsert, inc |-> NilMap,
     dec |-> NilMap]

\* &api.MutationItem{}: every variant nil.
EmptyItem ==
    [create |-> NilRaw, createIfNotExists |-> NilRaw, createOrReplace |-> NilRaw,
     delete |-> NilDelete, patch |-> NilPatch]

\* func marshalJSON(val interface{}) (*json.RawMessage, error): a
\* *json.RawMessage is returned as it is, nil included; a []byte becomes the
\* message without a look at it; anything else goes through json.Marshal, and
\* its failure is the error, named here after the type that caused it.
marshalJSON(val) ==
    IF val.kind = "rawnil" THEN [b |-> NilRaw, err |-> "nil"]
    ELSE IF val.kind \in {"raw", "bytes"} THEN [b |-> RawMessage(val.text), err |-> "nil"]
    ELSE IF jsonMarshal(val).err THEN [b |-> NilRaw, err |-> val.kind]
    ELSE [b |-> RawMessage(jsonMarshal(val).text), err |-> "nil"]

\* setErr as a variant that keeps the latest error.
setErrLast(err, e) == e

\* func (mb *MutationBuilder) setErr(err error): if mb.err == nil { mb.err = err }
setErr(err, e) == IF err = "nil" THEN e ELSE err

\* func (mb *MutationBuilder) marshalJSON(val): the message and ok, and mb.err
\* after the call.
mbMarshalJSON(err, val) ==
    LET m == marshalJSON(val)
    IN  IF m.err # "nil"
          THEN [b |-> NilRaw, ok |-> FALSE, err |-> setErr(err, m.err)]
          ELSE [b |-> m.b, ok |-> TRUE, err |-> err]

\* What a builder call returns: the MutationBuilder, or the PatchBuilder of
\* the patch held by item idx.
TheBuilder == [kind |-> "mb", idx |-> 0]

ThePatchBuilder(i) == [kind |-> "pb", idx |-> i]

NotSet == [set |-> FALSE, val |-> <<>>]

\* The history with one more marshal failure, if val fails to marshal.
Marshalling(hist, val) ==
    IF marshalJSON(val).err # "nil"
      THEN [hist EXCEPT !.failures = Append(@, marshalJSON(val).err)]
      ELSE hist

\* A call on a builder that has not been executed yet.
Called ==
    /\ mutPc = "ready"
    /\ mbCalls < MaxChain
    /\ mbCalls' = mbCalls + 1
    /\ UNCHANGED <<mutPc, mutReq, mutOut, mutResp, mutResult>>

\* func (mb *MutationBuilder) Visibility(v api.MutationVisibility) *MutationBuilder
Visibility(v) ==
    /\ Called
    /\ mbVisibility' = v
    /\ mbHist' = [mbHist EXCEPT !.vis = [set |-> TRUE, val |-> v]]
    /\ mbRet' = TheBuilder
    /\ UNCHANGED <<mbItems, mbErr, mbReturnIDs, mbReturnDocs, mbTransactionID>>

\* func (mb *MutationBuilder) TransactionID(id string) *MutationBuilder
TransactionID(id) ==
    /\ Called
    /\ mbTransactionID' = id
    /\ mbHist' = [mbHist EXCEPT !.tx = [set |-> TRUE, val |-> id]]
    /\ mbRet' = TheBuilder
    /\ UNCHANGED <<mbItems, mbErr, mbReturnIDs, mbReturnDocs, mbVisibility>>

\* func (mb *MutationBuilder) ReturnIDs(enable bool) *MutationBuilder
ReturnIDs(enable) ==
    /\ Called
    /\ mbReturnIDs' = enable
    /\ mbHist' = [mbHist EXCEPT !.ids = [set |-> TRUE, val |-> enable]]
    /\ mbRet' = TheBuilder
    /\ UNCHANGED <<mbItems, mbErr, mbReturnDocs, mbVisibility, mbTransactionID>>

\* ReturnDocuments as a variant that writes the other flag too.
ReturnDocumentsBoth(enable) ==
    /\ Called
    /\ mbReturnDocs' = enable
    /\ mbReturnIDs' = enable
    /\ mbHist' = [mbHist EXCEPT !.docs = [set |-> TRUE, val |-> enable]]
    /\ mbRet' = TheBuilder
    /\ UNCHANGED <<mbItems, mbErr, mbVisibility, mbTransactionID>>

\* func (mb *MutationBuilder) ReturnDocuments(enable bool) *MutationBuilder
ReturnDocuments(enable) ==
    /\ Called
    /\ mbReturnDocs' = enable
    /\ mbHist' = [mbHist EXCEPT !.docs = [set |-> TRUE, val |-> enable]]
    /\ mbRet' = TheBuilder
    /\ UNCHANGED <<mbItems, mbErr, mbReturnIDs, mbVisibility, mbTransactionID>>

\* The body shared by Create, CreateIfNotExists and CreateOrReplace: the
\* document is marshalled, and on success `item` (the new MutationItem with
\* its one field set) is appended.
AppendMarshalled(doc, item) ==
    /\ Called
    /\ mbErr' = mbMarshalJSON(mbErr, doc).err
    /\ mbItems' = IF mbMarshalJSON(mbErr, doc).ok THEN Append(mbItems, item) ELSE mbItems
    /\ mbHist' = Marshalling(mbHist, doc)
    /\ mbRet' = TheBuilder
    /\ UNCHANGED <<mbReturnIDs, mbReturnDocs, mbVisibility, mbTransactionID>>

\* func (mb *MutationBuilder) Create(doc interface{}) *MutationBuilder
Create(doc) ==
    AppendMarshalled(doc, [EmptyItem EXCEPT !.create = mbMarshalJSON(mbErr, doc).b])

\* func (mb *MutationBuilder) CreateIfNotExists(doc interface{}) *MutationBuilder
CreateIfNotExists(doc) ==
    AppendMarshalled(doc, [EmptyItem EXCEPT !.createIfNotExists = mbMarshalJSON(mbErr, doc).b])

\* func (mb *MutationBuilder) CreateOrReplace(doc interface{}) *MutationBuilder
CreateOrReplace(doc) ==
    AppendMarshalled(doc, [EmptyItem EXCEPT !.createOrReplace = mbMarshalJSON(mbErr, doc).b])

\* func (mb *MutationBuilder) Delete(id string) *MutationBuilder
Delete(id) ==
    /\ Called
    /\ mbItems' = Append(mbItems, [EmptyItem EXCEPT !.delete = [nil |-> FALSE, id |-> id]])
    /\ mbRet' = TheBuilder
    /\ UNCHANGED <<mbErr, mbReturnIDs, mbReturnDocs, mbVisibility, mbTransactionID, mbHist>>

\* func (mb *MutationBuilder) Patch(id string) *PatchBuilder: the item holds
\* the new patch, and the PatchBuilder returned points at that same patch.
Patch(id) ==
    /\ Called
    /\ mbItems' = Append(mbItems, [EmptyItem EXCEPT !.patch = [NilPatch EXCEPT !.nil = FALSE, !.id = id]])
    /\ mbRet' = ThePatchBuilder(Len(mbItems) + 1)
    /\ UNCHANGED <<mbErr, mbReturnIDs, mbReturnDocs, mbVisibility, mbTransactionID, mbHist>>

\* ---- PatchBuilder: pb.patch is the patch of item i of mb.items ----

\* A PatchBuilder for item i exists: Patch appended that item.
IsPatch(i) == i \in 1 .. Len(mbItems) /\ ~mbItems[i].patch.nil

\* A Go map with one more entry; the map is made first if it was nil.
MapPut(map, key, val) ==
    [nil |-> FALSE,
     m   |-> [k \in DOMAIN map.m \cup {key} |-> IF k = key THEN val ELSE map.m[k]]]

\* A call on the PatchBuilder of item i that leaves *pb.patch as `patch`,
\* and mb.err and the history as given.
PatchCall(i, patch, err, hist) ==
    /\ Called
    /\ IsPatch(i)
    /\ mbItems' = [mbItems EXCEPT ![i].patch = patch]
    /\ mbErr' = err
    /\ mbHist' = hist
    /\ mbRet' = ThePatchBuilder(i)
    /\ UNCHANGED <<mbReturnIDs, mbReturnDocs, mbVisibility, mbTransactionID>>

\* IfRevisionID as a variant that writes through to every patch of the list.
IfRevisionIDAll(i, id) ==
    /\ Called
    /\ IsPatch(i)
    /\ mbItems' = [k \in 1 .. Len(mbItems) |->
                      IF mbItems[k].patch.nil THEN mbItems[k]
                      ELSE [mbItems[k] EXCEPT !.patch.ifRevisionID = id]]
    /\ mbRet' = ThePatchBuilder(i)
    /\ UNCHANGED <<mbErr, mbHist, mbReturnIDs, mbReturnDocs, mbVisibility, mbTransactionID>>

\* func (pb *PatchBuilder) IfRevisionID(id string) *PatchBuilder
IfRevisionID(i, id) ==
    /\ IsPatch(i)
    /\ PatchCall(i, [mbItems[i].patch EXCEPT !.ifRevisionID = id], mbErr, mbHist)

\* func (pb *PatchBuilder) Query(query string) *PatchBuilder
PatchQuery(i, query) ==
    /\ IsPatch(i)
    /\ PatchCall(i, [mbItems[i].patch EXCEPT !.query = query], mbErr, mbHist)

\* Set as a variant that stores what marshalJSON returned whether or not it
\* was ok.
SetStoring(i, path, val) ==
    /\ IsPatch(i)
    /\ LET r == mbMarshalJSON(mbErr, val)
           p == mbItems[i].patch
       IN  PatchCall(i, [p EXCEPT !.set = MapPut(p.set, path, r.b)],
                     r.err, Marshalling(mbHist, val))

\* func (pb *PatchBuilder) Set(path string, val interface{}) *PatchBuilder:
\* the map is made before the value is marshalled.
Set(i, path, val) ==
    /\ IsPatch(i)
    /\ LET r == mbMarshalJSON(mbErr, val)
           p == mbItems[i].patch
       IN  PatchCall(i,
                     [p EXCEPT !.set = IF r.ok THEN MapPut(p.set, path, r.b)
                                       ELSE [nil |-> FALSE, m |-> p.set.m]],
                     r.err, Marshalling(mbHist, val))

\* func (pb *PatchBuilder) SetIfMissing(path string, val interface{}) *PatchBuilder
SetIfMissing(i, path, val) ==
    /\ IsPatch(i)
    /\ LET r == mbMarshalJSON(mbErr, val)
           p == mbItems[i].patch
       IN  PatchCall(i,
                     [p EXCEPT !.setIfMissing = IF r.ok THEN MapPut(p.setIfMissing, path, r.b)
                                                ELSE [nil |-> FALSE, m |-> p.setIfMissing.m]],
                     r.err, Marshalling(mbHist, val))

\* func (pb *PatchBuilder) Unset(paths ...string) *PatchBuilder
Unset(i, paths) ==
    /\ IsPatch(i)
    /\ PatchCall(i, [mbItems[i].patch EXCEPT !.unset = @ \o paths], mbErr, mbHist)

\* func (pb *PatchBuilder) Inc(path string, n float64) *PatchBuilder
Inc(i, path, n) ==
    /\ IsPatch(i)
    /\ PatchCall(i, [mbItems[i].patch EXCEPT !.inc = MapPut(@, path, n)], mbErr, mbHist)

\* func (pb *PatchBuilder) Dec(path string, n float64) *PatchBuilder
Dec(i, path, n) ==
    /\ IsPatch(i)
    /\ PatchCall(i, [mbItems[i].patch EXCEPT !.dec = MapPut(@, path, n)], mbErr, mbHist)

\* The loop of the Insert* methods: the index of the first item that fails to
\* marshal, 0 if none does.
FirstFailure(items) ==
    LET failing == {k \in 1 .. Len(items) : marshalJSON(items[k]).err # "nil"}
    IN  IF failing = {} THEN 0 ELSE SetMin(failing)

\* The body shared by the Insert* methods: the items are marshalled in order;
\* at the first failure the error is recorded and the patch is left as it
\* was; otherwise pb.patch.Insert is replaced by `insert`.
InsertCall(i, items, insert) ==
    /\ IsPatch(i)
    /\ LET f == FirstFailure(items)
       IN  IF f # 0
             THEN PatchCall(i, mbItems[i].patch, mbMarshalJSON(mbErr, items[f]).err,
                            Marshalling(mbHist, items[f]))
             ELSE PatchCall(i, [mbItems[i].patch EXCEPT !.insert = insert], mbErr,
                            [mbHist EXCEPT !.inserts = @ + 1])

\* The marshalled items: bs[i] = b
Marshalled(items) == [k \in 1 .. Len(items) |-> marshalJSON(items[k]).b]

\* func (pb *PatchBuilder) InsertBefore(path string, items ...interface{}) *PatchBuilder
InsertBefore(i, path, items) ==
    InsertCall(i, items, [NilInsert EXCEPT !.nil = FALSE, !.before = path,
                                           !.items = Marshalled(items)])

\* InsertAfter as a variant that fills in the directive already there.
InsertAfterKeeping(i, path, items) ==
    /\ IsPatch(i)
    /\ InsertCall(i, items, [mbItems[i].patch.insert EXCEPT !.nil = FALSE, !.after = path,
                                                          !.items = Marshalled(items)])

\* func (pb *PatchBuilder) InsertAfter(path string, items ...interface{}) *PatchBuilder
InsertAfter(i, path, items) ==
    InsertCall(i, items, [NilInsert EXCEPT !.nil = FALSE, !.after = path,
                                           !.items = Marshalled(items)])

\* func (pb *PatchBuilder) InsertReplace(path string, items ...interface{}) *PatchBuilder
InsertReplace(i, path, items) ==
    InsertCall(i, items, [NilInsert EXCEPT !.nil = FALSE, !.replace = path,
                                           !.items = Marshalled(items)])

\* func (pb *PatchBuilder) End() *MutationBuilder: return pb.mb
End(i) ==
    /\ Called
    /\ IsPatch(i)
    /\ mbRet' = TheBuilder
    /\ UNCHANGED <<mbItems, mbErr, mbHist, mbReturnIDs, mbReturnDocs, mbVisibility,
                   mbTransactionID>>

\* ---- MutationBuilder.Do ----

\* The goroutine that runs MutationBuilder.Do.
MutCall == "call1"

\* The path of a mutation request: AppendPath("data/mutate", mb.c.dataset)
MutatePath ==
    AppendPath(<<>>, <<<<100, 97, 116, 97, 47, 109, 117, 116, 97, 116, 101>>, Dataset>>)

\* Request.Param with a bool: "true" or "false"
BoolText(b) == IF b THEN JTrue ELSE JFalse

\* The parameters of Do as a variant that always adds transactionId.
MutationParamsAlways(ids, docs, vis, tx) ==
    <<[key |-> <<114, 101, 116, 117, 114, 110, 73, 100, 115>>, val |-> BoolText(ids)],
      [key |-> <<114, 101, 116, 117, 114, 110, 68, 111, 99, 117, 109, 101, 110, 116, 115>>,
       val |-> BoolText(docs)],
      [key |-> <<118, 105, 115, 105, 98, 105, 108, 105, 116, 121>>, val |-> vis],
      [key |-> <<116, 114, 97, 110, 115, 97, 99, 116, 105, 111, 110, 73, 100>>, val |-> tx]>>

\* The parameters Do gives the request: returnIds, returnDocuments,
\* visibility, and transactionId if mb.transactionID != "".
MutationParams(ids, docs, vis, tx) ==
    <<[key |-> <<114, 101, 116, 117, 114, 110, 73, 100, 115>>, val |-> BoolText(ids)],
      [key |-> <<114, 101, 116, 117, 114, 110, 68, 111, 99, 117, 109, 101, 110, 116, 115>>,
       val |-> BoolText(docs)],
      [key |-> <<118, 105, 115, 105, 98, 105, 108, 105, 116, 121>>, val |-> vis]>>
    \o (IF tx # <<>>
          THEN <<[key |-> <<116, 114, 97, 110, 115, 97, 99, 116, 105, 111, 110, 73, 100>>,
                  val |-> tx]>>
          ELSE <<>>)

\* The raw messages a list of items holds.
RawMessagesOf(items) ==
    UNION {{items[k].create, items[k].createIfNotExists, items[k].createOrReplace}
             \cup {items[k].patch.set.m[p] : p \in DOMAIN items[k].patch.set.m}
             \cup {items[k].patch.setIfMissing.m[p] : p \in DOMAIN items[k].patch.setIfMissing.m}
             \cup {items[k].patch.insert.items[j] : j \in DOMAIN items[k].patch.insert.items}
           : k \in 1 .. Len(items)}

\* MarshalBody(&api.MutateRequest{Mutations: mb.items}): json.Marshal fails on
\* a raw message that is not JSON; a nil slice is written as null, any other
\* as the array of its items, each item with the members that are not nil.
MarshalBody(items) ==
    [err       |-> \E r \in RawMessagesOf(items) : ~r.nil /\ JSONKind(r.raw) = "invalid",
     mutations |-> [null |-> Len(items) = 0, elems |-> items]]

\* The method as a variant.
MutationMethodGet == "GET"

\* Method(http.MethodPost)
MutationMethod == "POST"

NoMutationBody == [err |-> FALSE, mutations |-> [null |-> FALSE, elems |-> <<>>]]

NoMutationRequest == [method |-> "", url |-> <<>>, body |-> NoMutationBody]

NoMutateResult == [err |-> "none", cause |-> "nil", results |-> "nil"]

\* var resp api.MutateResponse: the zero value.
ZeroMutateResponse == [transactionID |-> <<>>, results |-> <<>>]

\* The *MutateResult that is nil.
NilMutateResult == [nil |-> TRUE, TransactionID |-> <<>>, Results |-> <<>>]

\* return &MutateResult{Results: resp.Results}, nil: TransactionID is left at
\* its zero value.
MutateResult(resp) ==
    [nil |-> FALSE, TransactionID |-> <<>>, Results |-> resp.results]

\* Responses of the mutate endpoint: a transaction id ("" or "t") and the
\* result items, each the raw JSON of a document ("1", "2").
MutateResponses ==
    {[transactionID |-> t, results |-> r] :
        t \in {<<>>, <<116>>},
        r \in {<<>>, <<(<<49>>)>>, <<(<<49>>), (<<50>>)>>, <<(<<50>>), (<<49>>)>>}}

\* Do up to the executor: the recorded error if there is one, otherwise the
\* request and mb.c.do(ctx, req, &resp).
MutationDo ==
    /\ mutPc = "ready"
    /\ IF mbErr # "nil"
         THEN /\ mutPc' = "done"
              /\ mutOut' = [err |-> "mutation builder", cause |-> mbErr, results |-> "nil"]
              /\ UNCHANGED <<mutReq, execVars>>
         ELSE LET body == MarshalBody(mbItems)
                  params == MutationParams(mbReturnIDs, mbReturnDocs, mbVisibility,
                                           mbTransactionID)
              IN  /\ BeginCall(MutCall, MutationMethod, body.err)
                  /\ mutPc' = "calling"
                  /\ mutReq' = [method |-> MutationMethod,
                                url    |-> EncodeURLQuery(BaseAPIURL, MutatePath, params),
                                body   |-> body]
                  /\ UNCHANGED mutOut
    /\ UNCHANGED <<mbItems, mbErr, mbReturnIDs, mbReturnDocs, mbVisibility, mbTransactionID,
                   mbRet, mbCalls, mbHist, mutResp, mutResult>>

\* Do after the executor has returned: its error wrapped and a nil result, or
\* the MutateResult made from resp, which the executor decoded the body into.
MutationReturn ==
    /\ mutPc = "calling"
    /\ pc[MutCall] = "done"
    /\ mutPc' = "done"
    /\ mutOut' = IF result[MutCall].kind = "ok"
                   THEN [err |-> "none", cause |-> "nil", results |-> "decoded"]
                   ELSE [err |-> "mutate", cause |-> result[MutCall].kind, results |-> "nil"]
    /\ \E resp \in MutateResponses :
          IF result[MutCall].kind = "ok"
            THEN mutResp' = resp /\ mutResult' = MutateResult(resp)
            ELSE UNCHANGED <<mutResp, mutResult>>
    /\ UNCHANGED <<mbItems, mbErr, mbReturnIDs, mbReturnDocs, mbVisibility, mbTransactionID,
                   mbRet, mbCalls, mbHist, mutReq, execVars>>

\* ---- the inputs of the builders ----

\* Documents: 1, a channel and a function (neither marshals), a nil
\* *json.RawMessage, and the bytes "{" (not JSON).
DocInt == [kind |-> "int", text |-> <<49>>]

DocChan == [kind |-> "chan", text |-> <<>>]

DocFunc == [kind |-> "func", text |-> <<>>]

DocRawNil == [kind |-> "rawnil", text |-> <<>>]

DocBytes == [kind |-> "bytes", text |-> <<123>>]

Documents == {DocInt, DocChan, DocFunc, DocRawNil, DocBytes}

\* Values and item lists for Set, SetIfMissing and the Insert* methods.
PatchValues == {DocInt, DocChan}

InsertItems == {<<>>, <<DocInt>>, <<[kind |-> "int", text |-> <<50>>], DocInt>>, <<DocInt, DocFunc, DocChan>>}

\* Document ids "d" and "e", paths "p" and "q".
DocumentIDs == {<<100>>, <<101>>}

Paths == {<<112>>, <<113>>}

\* sync, async, deferred
Visibilities == {<<115, 121, 110, 99>>, <<97, 115, 121, 110, 99>>,
                 <<100, 101, 102, 101, 114, 114, 101, 100>>}

\* Transaction ids: "" and "x"
TransactionIDs == {<<>>, <<120>>}

NoHistory == [failures |-> <<>>, inserts |-> 0, ids |-> [set |-> FALSE, val |-> FALSE],
              docs |-> [set |-> FALSE, val |-> FALSE], vis |-> NotSet, tx |-> NotSet]

\* func (c *Client) Mutate() *MutationBuilder: returnDocs true, visibility
\* sync, everything else the zero value.
MutInit ==
    /\ mbItems = <<>>
    /\ mbErr = "nil"
    /\ mbReturnIDs = FALSE
    /\ mbReturnDocs = TRUE
    /\ mbVisibility = <<115, 121, 110, 99>>
    /\ mbTransactionID = <<>>
    /\ mbRet = TheBuilder
    /\ mbCalls = 0
    /\ mbHist = NoHistory
    /\ mutPc = "ready"
    /\ mutReq = NoMutationRequest
    /\ mutOut = NoMutateResult
    /\ mutResp = ZeroMutateResponse
    /\ mutResult = NilMutateResult

\* No mutation is being built.
MutIdle ==
    /\ mbItems = <<>>
    /\ mbErr = "nil"
    /\ mbReturnIDs = FALSE
    /\ mbReturnDocs = TRUE
    /\ mbVisibility = <<115, 121, 110, 99>>
    /\ mbTransactionID = <<>>
    /\ mbRet = TheBuilder
    /\ mbCalls = 0
    /\ mbHist = NoHistory
    /\ mutPc = "off"
    /\ mutReq = NoMutationRequest
    /\ mutOut = NoMutateResult
    /\ mutResp = ZeroMutateResponse
    /\ mutResult = NilMutateResult

-----------------------------------------------------------------------------
(* The client file: Version, the options and Version.NewClient             *)

\* Whether ch is one of '0' .. '9' (the class \d of Go's regexp is ASCII only).
IsDigit(ch) == ch \in 48 .. 57

\* Where a match of \d{4}-\d{2}-\d{2} that begins at position i of s ends
\* (the position after its last character), or 0 when there is none.
MatchDate(s, i) ==
    IF /\ i + 9 <= Len(s)
       /\ \A k \in {0, 1, 2, 3, 5, 6, 8, 9} : IsDigit(s[i + k])
       /\ s[i + 4] = 45
       /\ s[i + 7] = 45
    THEN i + 10 ELSE 0

\* Where a match of (1|X|\d{4}-\d{2}-\d{2}) that begins at position i of s
\* may end: after "1", after "X", after a date.
MatchAlternatives(s, i) ==
    (IF i <= Len(s) /\ s[i] \in {49, 88} THEN {i + 1} ELSE {})
        \cup ({MatchDate(s, i)} \ {0})

\* The pattern without its anchors: a match may begin and end anywhere.
MatchVersionUnanchored(s) ==
    \E i \in 1 .. Len(s) + 1 : MatchAlternatives(s, i) # {}

\* regExpVersion.MatchString(s) for ^(1|X|\d{4}-\d{2}-\d{2})$: the match begins
\* at the first character and ends after the last ($ without the m flag is
\* the end of the text, a trailing newline is not skipped).
MatchVersion(s) == Len(s) + 1 \in MatchAlternatives(s, 1)

\* func (version Version) Validate() error
Validate(version) ==
    IF version = <<>> THEN "no version given"
    ELSE IF ~MatchVersion(version) THEN "invalid version format"
    ELSE "nil"

\* Lower and upper case of an ASCII letter.
ToLower(ch) == IF ch \in 65 .. 90 THEN ch + 32 ELSE ch

ToUpper(ch) == IF ch \in 97 .. 122 THEN ch - 32 ELSE ch

\* textproto.CanonicalMIMEHeaderKey for a name made of letters, digits and
\* '-': the first letter and every letter after a '-' in upper case, the
\* others in lower case.
CanonicalMIMEHeaderKey(name) ==
    [i \in 1 .. Len(name) |->
        IF i = 1 \/ name[i - 1] = 45 THEN ToUpper(name[i]) ELSE ToLower(name[i])]

\* http.Header.Add as a variant that puts the value in the place of the ones
\* the header has (http.Header.Set).
HeaderSet(h, name, val) ==
    LET k == CanonicalMIMEHeaderKey(name)
    IN  [x \in DOMAIN h \cup {k} |-> IF x = k THEN <<val>> ELSE h[x]]

\* http.Header.Add(name, val): val goes after the values the canonical name
\* already has.
HeaderAdd(h, name, val) ==
    LET k == CanonicalMIMEHeaderKey(name)
    IN  [x \in DOMAIN h \cup {k} |->
            IF x = k THEN (IF k \in DOMAIN h THEN Append(h[k], val) ELSE <<val>>)
            ELSE h[x]]

\* A nil http.Header.
NoHeaders == [x \in {} |-> <<>>]

\* The values of a header, none when the name is absent (http.Header.Values).
HeaderValues(h, name) ==
    LET k == CanonicalMIMEHeaderKey(name)
    IN  IF k \in DOMAIN h THEN h[k] ELSE <<>>

\* An Option is a function on the Client; here it is the record of what the
\* function does: which option it is and the arguments it was made from.
WithToken(t) == [opt |-> "WithToken", key |-> <<>>, value |-> t, flag |-> FALSE]

WithHTTPHeader(key, value) ==
    [opt |-> "WithHTTPHeader", key |-> key, value |-> value, flag |-> FALSE]

WithCDN(b) == [opt |-> "WithCDN", key |-> <<>>, value |-> <<>>, flag |-> b]

WithHTTPHost(scheme, host) ==
    [opt |-> "WithHTTPHost", key |-> scheme, value |-> host, flag |-> FALSE]

\* opt(&c) for these options, on the fields they write.
ApplyOption(c, o) ==
    IF o.opt = "WithToken" THEN [c EXCEPT !.token = o.value]
    ELSE IF o.opt = "WithCDN" THEN [c EXCEPT !.useCDN = o.flag]
    ELSE IF o.opt = "WithHTTPHost"
      THEN [c EXCEPT !.baseAPIURL.scheme = o.key, !.baseAPIURL.host = o.value,
                     !.baseQueryURL.scheme = o.key, !.baseQueryURL.host = o.value]
    ELSE [c EXCEPT !.customHeaders = HeaderAdd(@, o.key, o.value)]

\* for _, opt := range opts { opt(&c) }
RECURSIVE ApplyOptions(_, _)
ApplyOptions(c, opts) ==
    IF Len(opts) = 0 THEN c ELSE ApplyOptions(ApplyOption(c, opts[1]), Tail(opts))

\* APIHost = "api.sanity.io" and APICDNHost = "apicdn.sanity.io", each after
\* the '.' that follows the project id.
APIHostSuffix == <<46, 97, 112, 105, 46, 115, 97, 110, 105, 116, 121, 46, 105, 111>>

APICDNHostSuffix ==
    <<46, 97, 112, 105, 99, 100, 110, 46, 115, 97, 110, 105, 116, 121, 46, 105, 111>>

\* "https"
Https == <<104, 116, 116, 112, 115>>

NoURL == [scheme |-> <<>>, host |-> <<>>, path |-> <<>>]

NoClient ==
    [err |-> "none", useCDN |-> FALSE, baseAPIURL |-> NoURL, baseQueryURL |-> NoURL,
     dataset |-> <<>>, token |-> <<>>, customHeaders |-> NoHeaders]

\* The choice of the query host that looks at the toggle only.
QueryHostToggleOnly(c, projectID) ==
    IF c.useCDN THEN projectID \o APICDNHostSuffix ELSE c.baseAPIURL.host

\* c.baseQueryURL = c.baseAPIURL; if c.useCDN && c.baseAPIURL.Host == baseAPIURL
\* { c.baseQueryURL.Host = projectID + "." + APICDNHost }
QueryHost(c, projectID) ==
    IF c.useCDN /\ c.baseAPIURL.host = projectID \o APIHostSuffix
      THEN projectID \o APICDNHostSuffix
      ELSE c.baseAPIURL.host

\* func (v Version) NewClient(projectID, dataset string, opts ...Option):
\* the project id and the dataset are looked at, the base URL gets the path
\* "/v" + v.String(), the options are applied, and the base URL of queries
\* is the API's with the host chosen by QueryHost.
NewClient(v, projectID, dataset, opts) ==
    IF projectID = <<>>
      THEN [NoClient EXCEPT !.err = "project ID cannot be empty"]
    ELSE IF dataset = <<>>
      THEN [NoClient EXCEPT !.err = "dataset must be set"]
    ELSE LET api == [scheme |-> Https,
                     host   |-> projectID \o APIHostSuffix,
                     path   |-> <<47, 118>> \o v]
             c == ApplyOptions([err |-> "nil", useCDN |-> FALSE, baseAPIURL |-> api,
                                baseQueryURL |-> NoURL, dataset |-> dataset,
                                token |-> <<>>, customHeaders |-> NoHeaders], opts)
         IN  [c EXCEPT !.baseQueryURL = [c.baseAPIURL EXCEPT !.host = QueryHost(c, projectID)]]

-----------------------------------------------------------------------------
(* src/internal/requests/requests.go: the request builder                  *)

\* Builder calls made on one request before the model stops building.
MaxBuild == 3

\* Path segments handed to Path and AppendPath since the last Path, at most.
MaxSegments == 5

\* Header calls made on one request whose headers are followed to the wire.
MaxHeaderCalls == 2

\* b.body: nil, or a reader over bytes.
NilBody == [kind |-> "nil", data |-> <<>>]

BytesReader(data) == [kind |-> "reader", data |-> data]

\* "application/json"
ApplicationJSON ==
    <<97, 112, 112, 108, 105, 99, 97, 116, 105, 111, 110, 47, 106, 115, 111, 110>>

\* "Accept", "user-agent", "authorization", "tag"
AcceptName == <<65, 99, 99, 101, 112, 116>>

UserAgentName == <<117, 115, 101, 114, 45, 97, 103, 101, 110, 116>>

AuthorizationName == <<97, 117, 116, 104, 111, 114, 105, 122, 97, 116, 105, 111, 110>>

TagName == <<116, 97, 103>>

\* "Sanity Go client/" + runtime.Version(), here "Sanity Go client/go1"
UserAgent ==
    <<83, 97, 110, 105, 116, 121, 32, 71, 111, 32, 99, 108, 105, 101, 110, 116, 47,
      103, 111, 49>>

\* "Bearer "
Bearer == <<66, 101, 97, 114, 101, 114, 32>>

\* func New(baseURL url.URL) *Request
New(baseURL) ==
    [baseURL |-> baseURL,
     path    |-> <<>>,
     method  |-> "GET",
     params  |-> <<>>,
     headers |-> [x \in {AcceptName} |-> <<ApplicationJSON>>],
     body    |-> NilBody,
     err     |-> "nil"]

\* func (b *Request) Method(m string) *Request
ReqMethod(b, m) == [b EXCEPT !.method = m]

\* func (b *Request) AppendPath(elems ...string) *Request
ReqAppendPath(b, elems) == [b EXCEPT !.path = AppendPath(@, elems)]

\* func (b *Request) Path(elems ...string) *Request
ReqPath(b, elems) == ReqAppendPath([b EXCEPT !.path = <<>>], elems)

\* Header as a variant that replaces the values of the name.
ReqHeaderSet(b, name, val) == [b EXCEPT !.headers = HeaderSet(@, name, val)]

\* func (b *Request) Header(name, val string) *Request
ReqHeader(b, name, val) == [b EXCEPT !.headers = HeaderAdd(@, name, val)]

\* func (b *Request) Param(name string, val interface{}) *Request, for a val
\* [kind, text] that is a string, a fmt.Stringer or a bool: b.params.Add.
\* params is the sequence of [key, val] in the order of the calls.
ReqParam(b, name, val) == [b EXCEPT !.params = Append(@, [key |-> name, val |-> val.text])]

\* The kinds of value Param takes; any other makes it panic.
ParamKinds == {"string", "Stringer", "bool"}

\* func (b *Request) Tag(tag string, defaultTag string) *Request
ReqTag(b, tag, defaultTag) ==
    IF tag # <<>> THEN ReqParam(b, TagName, [kind |-> "string", text |-> tag])
    ELSE IF defaultTag # <<>>
      THEN ReqParam(b, TagName, [kind |-> "string", text |-> defaultTag])
    ELSE b

\* func (b *Request) Body(body []byte) *Request
ReqBody(b, body) == [b EXCEPT !.body = BytesReader(body)]

\* func (b *Request) ReadBody(r io.Reader) *Request
ReqReadBody(b, r) == [b EXCEPT !.body = r]

\* The error MarshalBody stores for a value: it wraps json.Marshal's, which
\* names the type of the value.
MarshalError(val) == val.kind

\* MarshalBody as a variant that returns on an error without storing it.
ReqMarshalBodyDropping(b, val) ==
    LET m == jsonMarshal(val)
    IN  IF m.err THEN b ELSE [b EXCEPT !.body = BytesReader(m.text)]

\* func (b *Request) MarshalBody(val interface{}) *Request
ReqMarshalBody(b, val) ==
    LET m == jsonMarshal(val)
    IN  IF m.err THEN [b EXCEPT !.err = MarshalError(val)]
        ELSE [b EXCEPT !.body = BytesReader(m.text)]

\* setHeaders as a variant that writes authorization without looking at the
\* token.
setHeadersAlways(c, r) ==
    LET r1 == ReqHeader(r, UserAgentName, UserAgent)
        r2 == ReqHeader(r1, AuthorizationName, Bearer \o c.token)
    IN  [r2 EXCEPT !.headers =
            [x \in DOMAIN r2.headers \cup DOMAIN c.customHeaders |->
                HeaderValues(r2.headers, x) \o HeaderValues(c.customHeaders, x)]]

\* setDefaultHeaders and c.setHeaders of NewClient: user-agent, authorization
\* when there is a token, then every value of every custom header. (The order
\* in which the names of c.customHeaders are ranged over does not show: the
\* values of one name keep their order, and names do not share values.)
setHeaders(c, r) ==
    LET r1 == ReqHeader(r, UserAgentName, UserAgent)
        r2 == IF c.token # <<>> THEN ReqHeader(r1, AuthorizationName, Bearer \o c.token)
              ELSE r1
    IN  [r2 EXCEPT !.headers =
            [x \in DOMAIN r2.headers \cup DOMAIN c.customHeaders |->
                HeaderValues(r2.headers, x) \o HeaderValues(c.customHeaders, x)]]

\* func (c *Client) newAPIRequest() *requests.Request; newQueryRequest is the
\* same on c.baseQueryURL, which is c.baseAPIURL unless WithCDN(true) was given.
newAPIRequest(c) == setHeaders(c, New(c.baseAPIURL))

\* func (c *Client) newQueryRequest() *requests.Request
newQueryRequest(c) == setHeaders(c, New(c.baseQueryURL))

\* The concatenation of a sequence of strings.
RECURSIVE Concat(_)
Concat(ss) == IF Len(ss) = 0 THEN <<>> ELSE ss[1] \o Concat(Tail(ss))

\* url.Values.Encode for keys that may have several values: the keys sorted,
\* the values of a key in the order they were added, '&' between entries.
RECURSIVE ValuesEncodeAll(_)
ValuesEncodeAll(params) ==
    IF Len(params) = 0 THEN <<>>
    ELSE LET keys  == {params[i].key : i \in 1 .. Len(params)}
             first == CHOOSE k \in keys : \A o \in keys : o # k => SeqLess(k, o)
             mine  == SelectSeq(params, LAMBDA p : p.key = first)
             rest  == SelectSeq(params, LAMBDA p : p.key # first)
             entries == [i \in 1 .. Len(mine) |->
                            (IF i = 1 THEN <<>> ELSE <<38>>)
                                \o QueryEscape(mine[i].key) \o <<61>>
                                \o QueryEscape(mine[i].val)]
         IN  IF Len(rest) = 0 THEN Concat(entries)
             ELSE Concat(entries) \o <<38>> \o ValuesEncodeAll(rest)

\* func (b *Request) EncodeURL() string, on the builder
ReqEncodeURL(b) ==
    IF Len(b.params) = 0 THEN EncodeURL(b.baseURL, b.path)
    ELSE EncodeURL(b.baseURL, b.path) \o <<63>> \o ValuesEncodeAll(b.params)

NoHTTPRequest == [method |-> "", url |-> <<>>, headers |-> NoHeaders, body |-> NilBody]

\* func (b *Request) HTTPRequest() (*http.Request, error): the stored error,
\* or a request with the builder's method, URL, body and headers.
ReqHTTPRequest(b) ==
    IF b.err # "nil" THEN [err |-> b.err, req |-> NoHTTPRequest]
    ELSE [err |-> "nil",
          req |-> [method |-> b.method, url |-> ReqEncodeURL(b),
                   headers |-> b.headers, body |-> b.body]]

\* ---- the state of one client and one request ----

\* The goroutine that runs the call.
ReqCall == "call1"

NoReqHistory ==
    [calls |-> 0, elems |-> <<>>, added |-> <<>>, fails |-> <<>>, frozen |-> <<>>]

NoResponse == [status |-> 0, body |-> <<>>, readFails |-> FALSE]

NoOut == [kind |-> "none", err |-> "nil", method |-> "", url |-> <<>>, status |-> 0,
          body |-> <<>>]

\* version.Validate() called on the version the client is to be made from.
ValidateCall ==
    /\ reqPc = "new"
    /\ versionErr = "none"
    /\ versionErr' = Validate(ncArgs.version)
    /\ UNCHANGED <<ncArgs, client, request, reqHist, reqPc, httpReq, sentReqs, lastResp,
                   reqOut>>

\* client, err := version.NewClient(projectID, dataset, opts...)
NewClientCall ==
    /\ reqPc = "new"
    /\ client' = NewClient(ncArgs.version, ncArgs.projectID, ncArgs.dataset, ncArgs.opts)
    /\ reqPc' = IF client'.err = "nil" THEN "client" ELSE "done"
    /\ UNCHANGED <<ncArgs, versionErr, request, reqHist, httpReq, sentReqs, lastResp,
                   reqOut>>

\* A builder of the package obtains its request: c.newAPIRequest().
NewAPIRequest ==
    /\ reqPc = "client"
    /\ request' = newAPIRequest(client)
    /\ reqPc' = "building"
    /\ UNCHANGED <<ncArgs, versionErr, client, reqHist, httpReq, sentReqs, lastResp,
                   reqOut>>

\* The query builder obtains its request: c.newQueryRequest().
NewQueryRequest ==
    /\ reqPc = "client"
    /\ request' = newQueryRequest(client)
    /\ reqPc' = "building"
    /\ UNCHANGED <<ncArgs, versionErr, client, reqHist, httpReq, sentReqs, lastResp,
                   reqOut>>

\* One call on the builder that ends with the builder as b; hist is the
\* history after it. The builder as it is when the first marshal failure is
\* stored is kept in the history.
BuilderCall(b, hist) ==
    /\ reqPc = "building"
    /\ reqHist.calls < MaxBuild
    /\ request' = b
    /\ reqHist' = [hist EXCEPT !.calls = @ + 1,
                               !.frozen = IF Len(reqHist.fails) = 0 /\ Len(hist.fails) = 1
                                            THEN <<b>> ELSE @]
    /\ UNCHANGED <<ncArgs, versionErr, client, reqPc, httpReq, sentReqs, lastResp, reqOut>>

RequestMethod(m) == BuilderCall(ReqMethod(request, m), reqHist)

RequestPath(elems) ==
    /\ Len(elems) <= MaxSegments
    /\ BuilderCall(ReqPath(request, elems), [reqHist EXCEPT !.elems = elems])

RequestAppendPath(elems) ==
    /\ Len(reqHist.elems) + Len(elems) <= MaxSegments
    /\ BuilderCall(ReqAppendPath(request, elems), [reqHist EXCEPT !.elems = @ \o elems])

RequestHeader(name, val) ==
    BuilderCall(ReqHeader(request, name, val),
                [reqHist EXCEPT !.added = Append(@, [name |-> name, val |-> val])])

\* Param panics on a value that is not a string, a fmt.Stringer or a bool.
RequestParam(name, val) ==
    IF val.kind \in ParamKinds
      THEN BuilderCall(ReqParam(request, name, val), reqHist)
      ELSE /\ reqPc = "building"
           /\ reqHist.calls < MaxBuild
           /\ reqPc' = "panic"
           /\ UNCHANGED <<ncArgs, versionErr, client, request, reqHist, httpReq, sentReqs,
                          lastResp, reqOut>>

RequestTag(tag, defaultTag) == BuilderCall(ReqTag(request, tag, defaultTag), reqHist)

RequestBody(body) == BuilderCall(ReqBody(request, body), reqHist)

RequestReadBody(r) == BuilderCall(ReqReadBody(request, r), reqHist)

RequestMarshalBody(val) ==
    BuilderCall(ReqMarshalBody(request, val),
                IF jsonMarshal(val).err
                  THEN [reqHist EXCEPT !.fails = Append(@, MarshalError(val))]
                  ELSE reqHist)

\* The builder is handed to the executor: c.do(ctx, req, &resp).
RequestDo ==
    /\ reqPc = "building"
    /\ BeginCall(ReqCall, request.method, request.err # "nil")
    /\ reqPc' = "calling"
    /\ UNCHANGED <<ncArgs, versionErr, client, request, reqHist, httpReq, sentReqs,
                   lastResp, reqOut>>

\* An executor that marks the builder when it retries: from the second round
\* on it adds a header "foo: bar" to the builder before it derives the request.
RequestHTTPRequestMarking ==
    /\ reqPc = "calling"
    /\ HTTPRequest(ReqCall)
    /\ request' = IF sleeps[ReqCall] > 0
                    THEN ReqHeader(request, <<102, 111, 111>>, <<98, 97, 114>>)
                    ELSE request
    /\ httpReq' = ReqHTTPRequest(request').req
    /\ reqOut' = IF ReqHTTPRequest(request).err # "nil"
                   THEN [NoOut EXCEPT !.kind = "buildErr", !.err = ReqHTTPRequest(request).err]
                   ELSE reqOut
    /\ UNCHANGED <<ncArgs, versionErr, client, reqHist, reqPc, sentReqs, lastResp>>

\* req, err := r.HTTPRequest() at the head of the executor's loop.
RequestHTTPRequest ==
    /\ reqPc = "calling"
    /\ HTTPRequest(ReqCall)
    /\ httpReq' = ReqHTTPRequest(request).req
    /\ reqOut' = IF ReqHTTPRequest(request).err # "nil"
                   THEN [NoOut EXCEPT !.kind = "buildErr", !.err = ReqHTTPRequest(request).err]
                   ELSE reqOut
    /\ UNCHANGED <<ncArgs, versionErr, client, request, reqHist, reqPc, sentReqs, lastResp>>

\* "[failed to read response body: %s]"
FailedToRead == <<91, 102, 97, 105, 108, 101, 100, 93>>

\* func (c *Client) handleErrorResponse(req, resp) error of the executor: the
\* response's body is read (resp.Body of a response of http.Client is never
\* nil); when reading fails Body is a text that says so.
handleErrorResponse(req, resp) ==
    [kind |-> "RequestError", err |-> "RequestError", method |-> req.method,
     url |-> req.url, status |-> resp.status,
     body |-> IF resp.readFails THEN FailedToRead ELSE resp.body]

\* c.hc.Do(req) sends the request and a response arrives; a response that the
\* executor neither decodes nor retries becomes a *RequestError.
RequestDoResponse(s, decodeOK, body, readFails) ==
    /\ reqPc = "calling"
    /\ DoResponse(ReqCall, s, decodeOK)
    /\ sentReqs' = Append(sentReqs, httpReq)
    /\ lastResp' = [status |-> s, body |-> body, readFails |-> readFails]
    /\ reqOut' = IF result'[ReqCall].kind = "RequestError"
                   THEN handleErrorResponse(httpReq, lastResp')
                   ELSE reqOut
    /\ UNCHANGED <<ncArgs, versionErr, client, request, reqHist, reqPc, httpReq>>

\* c.hc.Do(req) sends the request and the transport fails.
RequestDoError ==
    /\ reqPc = "calling"
    /\ DoError(ReqCall)
    /\ sentReqs' = Append(sentReqs, httpReq)
    /\ lastResp' = NoResponse
    /\ UNCHANGED <<ncArgs, versionErr, client, request, reqHist, reqPc, httpReq, reqOut>>

\* The executor has returned to the caller.
RequestReturn ==
    /\ reqPc = "calling"
    /\ pc[ReqCall] = "done"
    /\ reqPc' = "done"
    /\ reqOut' = IF result[ReqCall].kind \in {"RequestError", "buildErr"} THEN reqOut
                 ELSE [NoOut EXCEPT !.kind = result[ReqCall].kind]
    /\ UNCHANGED <<ncArgs, versionErr, client, request, reqHist, httpReq, sentReqs,
                   lastResp, execVars>>

-----------------------------------------------------------------------------
(* src/client.go: performGET, buildRequest and its handleErrorResponse     *)

\* func (c *Client) buildRequest(method, path string, params url.Values):
\* http.NewRequest(method, url, nil), then Header.Set of Accept and, with a
\* token, of Authorization. The request has no body: req.Body is nil.
buildRequest(c, m, path, params) ==
    LET h == [x \in {AcceptName} |-> <<ApplicationJSON>>]
    IN  [method  |-> m,
         url     |-> EncodeURLQuery(c.baseAPIURL, path, params),
         headers |-> IF c.token # <<>>
                       THEN HeaderSet(h, AuthorizationName, Bearer \o c.token)
                       ELSE h,
         body    |-> NilBody]

\* func (c *Client) handleErrorResponse(req, resp) error of src/client.go:
\* body, err := ioutil.ReadAll(req.Body) reads the body of the request. With
\* a nil req.Body the read dereferences a nil reader and the call panics.
handleErrorResponseGET(req, resp) ==
    IF req.body.kind = "nil"
      THEN [NoOut EXCEPT !.kind = "panic", !.err = "nil pointer dereference"]
      ELSE [kind |-> "RequestError", err |-> "RequestError", method |-> req.method,
            url |-> req.url, status |-> resp.status, body |-> req.body.data]

\* performGET up to its loop: the request is built once.
PerformGET(path) ==
    /\ reqPc = "client"
    /\ httpReq' = buildRequest(client, "GET", path, <<>>)
    /\ reqPc' = "performGET"
    /\ UNCHANGED <<ncArgs, versionErr, client, request, reqHist, sentReqs, lastResp,
                   reqOut>>

\* One round of the loop of performGET in which a response arrives: 2xx is
\* decoded and returned; a status that is not retriable goes to
\* handleErrorResponse; otherwise the body is closed, the callback runs, the
\* goroutine sleeps and the loop starts over.
PerformGETResponse(s, decodeOK, body, readFails) ==
    /\ reqPc = "performGET"
    /\ Len(sentReqs) < MaxSends
    /\ sentReqs' = Append(sentReqs, httpReq)
    /\ lastResp' = [status |-> s, body |-> body, readFails |-> readFails]
    /\ IF IsSuccess(s)
         THEN /\ reqPc' = "done"
              /\ reqOut' = [NoOut EXCEPT !.kind = IF decodeOK THEN "ok" ELSE "decodeErr"]
         ELSE IF ~isStatusCodeRetriable(s)
         THEN /\ reqOut' = handleErrorResponseGET(httpReq, lastResp')
              /\ reqPc' = IF reqOut'.kind = "panic" THEN "panic" ELSE "done"
         ELSE UNCHANGED <<reqPc, reqOut>>
    /\ UNCHANGED <<ncArgs, versionErr, client, request, reqHist, httpReq>>

\* One round of the loop in which c.hc.Do returns an error.
PerformGETError ==
    /\ reqPc = "performGET"
    /\ Len(sentReqs) < MaxSends
    /\ sentReqs' = Append(sentReqs, httpReq)
    /\ reqPc' = "done"
    /\ reqOut' = [NoOut EXCEPT !.kind = "transportErr"]
    /\ lastResp' = NoResponse
    /\ UNCHANGED <<ncArgs, versionErr, client, request, reqHist, httpReq>>

\* ---- the inputs of the client and of the request builder ----

\* "1", "p", "ds"
VersionV1 == <<49>>

ProjectID == <<112>>

\* Versions: "", "1", "X", "2021-03-25", "2021-01-01", "0000-00-00", and the
\* malformed "2021-01", "20210101", "11", "x", "v1", "X1", "1\n", " 1",
\* "2021-3-25", "2021-03-2a", "2021/03/25", "2021-03-25 ", "12021-03-25",
\* "2021-03-251", "2021-03-25\n", "../v1"
Versions ==
    {<<>>, <<49>>, <<88>>,
     <<50, 48, 50, 49, 45, 48, 51, 45, 50, 53>>,
     <<50, 48, 50, 49, 45, 48, 49, 45, 48, 49>>,
     <<48, 48, 48, 48, 45, 48, 48, 45, 48, 48>>,
     <<50, 48, 50, 49, 45, 48, 49>>,
     <<50, 48, 50, 49, 48, 49, 48, 49>>,
     <<49, 49>>, <<120>>, <<118, 49>>, <<88, 49>>, <<49, 10>>, <<32, 49>>,
     <<50, 48, 50, 49, 45, 51, 45, 50, 53>>,
     <<50, 48, 50, 49, 45, 48, 51, 45, 50, 97>>,
     <<50, 48, 50, 49, 47, 48, 51, 47, 50, 53>>,
     <<50, 48, 50, 49, 45, 48, 51, 45, 50, 53, 32>>,
     <<49, 50, 48, 50, 49, 45, 48, 51, 45, 50, 53>>,
     <<50, 48, 50, 49, 45, 48, 51, 45, 50, 53, 49>>,
     <<50, 48, 50, 49, 45, 48, 51, 45, 50, 53, 10>>,
     <<46, 46, 47, 118, 49>>}

\* Tokens: none, and "bork".
Tokens == {<<>>, <<98, 111, 114, 107>>}

\* Header names "foo", "accept", "Authorization"; values "bar", "text/xml".
HeaderNames ==
    {<<102, 111, 111>>, <<97, 99, 99, 101, 112, 116>>,
     <<65, 117, 116, 104, 111, 114, 105, 122, 97, 116, 105, 111, 110>>}

HeaderTexts == {<<98, 97, 114>>, <<116, 101, 120, 116, 47, 120, 109, 108>>}

\* Custom headers given as options: accept: text/xml, foo: bar, foo: baz and
\* Authorization: bar.
OptionHeaders ==
    {<<<<97, 99, 99, 101, 112, 116>>, <<116, 101, 120, 116, 47, 120, 109, 108>>>>,
     <<<<102, 111, 111>>, <<98, 97, 114>>>>,
     <<<<102, 111, 111>>, <<98, 97, 122>>>>,
     <<<<65, 117, 116, 104, 111, 114, 105, 122, 97, 116, 105, 111, 110>>, <<98, 97, 114>>>>}

\* Headers added on the request: accept: bar, foo: text/xml and
\* Authorization: text/xml.
CallHeaders ==
    {<<<<97, 99, 99, 101, 112, 116>>, <<98, 97, 114>>>>,
     <<<<102, 111, 111>>, <<116, 101, 120, 116, 47, 120, 109, 108>>>>,
     <<<<65, 117, 116, 104, 111, 114, 105, 122, 97, 116, 105, 111, 110>>,
       <<116, 101, 120, 116, 47, 120, 109, 108>>>>}

\* Options of NewClient, and the lists of at most two of them.
Options ==
    {WithToken(t) : t \in Tokens} \cup {WithHTTPHeader(h[1], h[2]) : h \in OptionHeaders}

OptionLists == {<<>>} \cup {<<o>> : o \in Options} \cup {<<o, p>> : o, p \in Options}

\* "localhost:8080", "http"
LocalHost == <<108, 111, 99, 97, 108, 104, 111, 115, 116, 58, 56, 48, 56, 48>>

Http == <<104, 116, 116, 112>>

\* Options that bear on the host: the CDN toggle on and off, a custom host of
\* one's own, the API's own host given as the custom host, a token.
HostOptions ==
    {WithCDN(TRUE), WithCDN(FALSE), WithHTTPHost(Http, LocalHost),
     WithHTTPHost(Https, ProjectID \o APIHostSuffix),
     WithToken(<<98, 111, 114, 107>>)}

HostOptionLists ==
    {<<>>} \cup {<<o>> : o \in HostOptions} \cup {<<o, p>> : o, p \in HostOptions}

\* Path segments: "", "/", "foo", "bar", "foo/", "/bar"; the lists of at most
\* two of them.
PathSegments ==
    {<<>>, <<47>>, <<102, 111, 111>>, <<98, 97, 114>>, <<102, 111, 111, 47>>,
     <<47, 98, 97, 114>>}

SegmentLists ==
    {<<>>} \cup {<<a>> : a \in PathSegments} \cup {<<a, b>> : a, b \in PathSegments}

\* Values for Param: the string "v", true, and an int (not accepted).
ParamInputs ==
    {[kind |-> "string", text |-> <<118>>], [kind |-> "bool", text |-> <<116, 114, 117, 101>>],
     [kind |-> "int", text |-> <<49>>]}

\* Arguments of Tag: ("bar", ""), ("", "text/xml") and ("", "").
TagInputs ==
    {<<<<98, 97, 114>>, <<>>>>, <<<<>>, <<116, 101, 120, 116, 47, 120, 109, 108>>>>,
     <<<<>>, <<>>>>}

\* Arguments of Path and AppendPath when the path is not what is looked at:
\* ("foo") and ("foo", "bar").
PathInputs == {<<<<102, 111, 111>>>>, <<<<102, 111, 111>>, <<98, 97, 114>>>>}

\* Values for MarshalBody: 1, a channel and a function.
BodyValues == {DocInt, DocChan, DocFunc}

\* Responses apart from their status: no body, the body "{}", and a body
\* whose reading fails.
ResponseKinds ==
    {[body |-> <<>>, readFails |-> FALSE], [body |-> <<123, 125>>, readFails |-> FALSE],
     [body |-> <<123, 125>>, readFails |-> TRUE]}

\* NewClient is about to be called with one of the argument lists of S.
ReqInitOver(S) ==
    /\ ncArgs \in S
    /\ versionErr = "none"
    /\ client = NoClient
    /\ request = New(NoURL)
    /\ reqHist = NoReqHistory
    /\ reqPc = "new"
    /\ httpReq = NoHTTPRequest
    /\ sentReqs = <<>>
    /\ lastResp = NoResponse
    /\ reqOut = NoOut

NoArgs == [version |-> <<>>, projectID |-> <<>>, dataset |-> <<>>, opts |-> <<>>]

\* VersionV1.NewClient("p", "ds")
PlainArgs ==
    [version |-> VersionV1, projectID |-> ProjectID, dataset |-> Dataset, opts |-> <<>>]

\* Error() has not been called.
MsgIdle == errMsg = <<>>

\* No client is being made and no request built.
ReqIdle ==
    /\ ncArgs = NoArgs
    /\ versionErr = "none"
    /\ client = NoClient
    /\ request = New(NoURL)
    /\ reqHist = NoReqHistory
    /\ reqPc = "off"
    /\ httpReq = NoHTTPRequest
    /\ sentReqs = <<>>
    /\ lastResp = NoResponse
    /\ reqOut = NoOut

-----------------------------------------------------------------------------
(* src/errors.go: RequestError.Error                                       *)

\* maxBody := 500
maxBody == 500

\* The longest response body looked at.
MaxBodyLen == 502

\* %d of a number that is not negative.
RECURSIVE Itoa(_)
Itoa(n) == IF n < 10 THEN <<48 + n>> ELSE Itoa(n \div 10) \o <<48 + (n % 10)>>

\* The text of a method.
MethodText(m) ==
    [GET |-> <<71, 69, 84>>, HEAD |-> <<72, 69, 65, 68>>, DELETE |-> <<68, 69, 76, 69, 84, 69>>,
     OPTIONS |-> <<79, 80, 84, 73, 79, 78, 83>>, POST |-> <<80, 79, 83, 84>>, PUT |-> <<80, 85, 84>>,
     PATCH |-> <<80, 65, 84, 67, 72>>][m]

\* " [... and ", " more bytes]"
AndMore == <<32, 91, 46, 46, 46, 32, 97, 110, 100, 32>>

MoreBytes == <<32, 109, 111, 114, 101, 32, 98, 121, 116, 101, 115, 93>>

\* fmt.Sprintf("HTTP request [%s %s] failed with status %d", ...)
FailedWithStatus(e) ==
    <<72, 84, 84, 80, 32, 114, 101, 113, 117, 101, 115, 116, 32, 91>>
        \o MethodText(e.method) \o <<32>> \o e.url
        \o <<93, 32, 102, 97, 105, 108, 101, 100, 32, 119, 105, 116, 104, 32, 115, 116, 97, 116, 117, 115, 32>>
        \o Itoa(e.status)

\* Error() that cuts a body of maxBody bytes or more.
ErrorCutsAtMaxBody(e) ==
    LET n    == Len(e.body)
        body == IF n >= maxBody
                  THEN SubSeq(e.body, 1, maxBody) \o AndMore \o Itoa(n - maxBody) \o MoreBytes
                  ELSE e.body
    IN  IF body # <<>> THEN FailedWithStatus(e) \o <<58, 32>> \o body ELSE FailedWithStatus(e)

\* func (e *RequestError) Error() string
Error(e) ==
    LET n    == Len(e.body)
        body == IF n > maxBody
                  THEN SubSeq(e.body, 1, maxBody) \o AndMore \o Itoa(n - maxBody) \o MoreBytes
                  ELSE e.body
    IN  IF body # <<>> THEN FailedWithStatus(e) \o <<58, 32>> \o body ELSE FailedWithStatus(e)

\* The caller asks the *RequestError it got for its message.
ErrorCall ==
    /\ reqPc = "done"
    /\ reqOut.kind = "RequestError"
    /\ errMsg = <<>>
    /\ errMsg' = Error(reqOut)
    /\ UNCHANGED reqVars

\* A body of n bytes, no two neighbours alike: "bcd...zab..."
BodyOfLen(n) == [i \in 1 .. n |-> 97 + (i % 26)]

\* A call has returned a *RequestError for a GET of the query endpoint, with
\* a status that is not retried and a body of every length looked at.
MsgInit ==
    /\ errMsg = <<>>
    /\ ncArgs = PlainArgs
    /\ versionErr = "none"
    /\ client = NewClient(VersionV1, ProjectID, Dataset, <<>>)
    /\ request = ReqAppendPath(newAPIRequest(client), <<QueryPath>>)
    /\ reqHist = NoReqHistory
    /\ reqPc = "done"
    /\ httpReq = ReqHTTPRequest(request).req
    /\ sentReqs = <<httpReq>>
    /\ \E s \in {404, 500}, n \in 0 .. MaxBodyLen :
          /\ lastResp = [status |-> s, body |-> BodyOfLen(n), readFails |-> FALSE]
          /\ reqOut = handleErrorResponse(httpReq, lastResp)

-----------------------------------------------------------------------------
(* The client file with a single baseURL: NewClient and WithOptions        *)

\* Calls of WithOptions and of options on a derived client that are followed.
MaxConfigCalls == 2

WithDataset(id) == [opt |-> "WithDataset", key |-> <<>>, value |-> id, flag |-> FALSE]

\* WithBaseURL(url.URL{Scheme: scheme, Host: host})
WithBaseURL(scheme, host) ==
    [opt |-> "WithBaseURL", key |-> scheme, value |-> host, flag |-> FALSE]

\* WithHTTPClient(hc): the pointer, by the name of what it points to.
WithHTTPClient(hc) ==
    [opt |-> "WithHTTPClient", key |-> <<>>, value |-> hc, flag |-> FALSE]

\* WithCallbacks(cbs): whether cbs has its callbacks set.
WithCallbacks(cbs) == [opt |-> "WithCallbacks", key |-> <<>>, value |-> <<>>, flag |-> cbs]

\* WithBackoff(backoff.Backoff{Jitter: jitter, Max: max})
WithBackoff(jitter, max) ==
    [opt |-> "WithBackoff", key |-> <<>>, value |-> max, flag |-> jitter]

\* An Option of the caller's own that writes the token and returns an error.
FailingOption(t) == [opt |-> "failing", key |-> <<>>, value |-> t, flag |-> FALSE]

\* err := opt(&c): the Client after it, and the error.
CallOption(c, o) ==
    [err |-> IF o.opt = "failing" THEN "option failed" ELSE "nil",
     c   |-> IF o.opt \in {"WithToken", "failing"} THEN [c EXCEPT !.token = o.value]
             ELSE IF o.opt = "WithDataset" THEN [c EXCEPT !.dataset = o.value]
             ELSE IF o.opt = "WithCDN" THEN [c EXCEPT !.useCDN = o.flag]
             ELSE IF o.opt = "WithBaseURL"
               THEN [c EXCEPT !.baseURL = [scheme |-> o.key, host |-> o.value, path |-> <<>>]]
             ELSE IF o.opt = "WithHTTPClient" THEN [c EXCEPT !.hc = o.value]
             ELSE IF o.opt = "WithCallbacks" THEN [c EXCEPT !.callbacks = o.flag]
             ELSE [c EXCEPT !.backoff = [jitter |-> o.flag, max |-> o.value]]]

\* for _, opt := range opts { if err := opt(&c); err != nil { return nil, err } }
RECURSIVE CallOptions(_, _)
CallOptions(c, opts) ==
    IF Len(opts) = 0 THEN [err |-> "nil", c |-> c]
    ELSE LET r == CallOption(c, opts[1])
         IN  IF r.err # "nil" THEN r ELSE CallOptions(r.c, Tail(opts))

\* "DefaultClient", "production"
DefaultClient == <<68, 101, 102, 97, 117, 108, 116, 67, 108, 105, 101, 110, 116>>

DefaultDataset == <<112, 114, 111, 100, 117, 99, 116, 105, 111, 110>>

\* func (v Version) NewClient(projectID string, opts ...Option) of that file.
NewClientOneURL(v, projectID, opts) ==
    LET r == CallOptions([hc         |-> DefaultClient,
                          apiVersion |-> v,
                          useCDN     |-> FALSE,
                          baseURL    |-> [scheme |-> Https, host |-> <<>>,
                                          path |-> <<47, 118>> \o v],
                          token      |-> <<>>,
                          projectID  |-> projectID,
                          dataset    |-> DefaultDataset,
                          backoff    |-> [jitter |-> TRUE, max |-> <<>>],
                          callbacks  |-> FALSE], opts)
    IN  IF projectID = <<>> THEN [err |-> "project ID cannot be empty", c |-> r.c]
        ELSE IF r.err # "nil" THEN r
        ELSE IF r.c.dataset = <<>> THEN [err |-> "dataset must be set", c |-> r.c]
        ELSE IF r.c.baseURL.host # <<>> THEN r
        ELSE [r EXCEPT !.c.baseURL.host =
                  projectID \o (IF r.c.useCDN THEN APICDNHostSuffix ELSE APIHostSuffix)]

\* WithOptions with `copy := c` in place of `copy := *c`: the options are
\* applied to the receiver itself.
WithOptionsOnReceiver(heap, recv, opts) ==
    LET r == CallOptions(heap[recv], opts)
    IN  [heap |-> [heap EXCEPT ![recv] = r.c],
         ret  |-> IF r.err # "nil" THEN 0 ELSE recv,
         err  |-> r.err]

\* func (c *Client) WithOptions(opts ...Option) (*Client, error): copy := *c
\* is a new Client value with the receiver's fields; the options are applied
\* to it, and its address is returned unless an option failed.
WithOptions(heap, recv, opts) ==
    LET r == CallOptions(heap[recv], opts)
    IN  IF r.err # "nil" THEN [heap |-> heap, ret |-> 0, err |-> r.err]
        ELSE [heap |-> Append(heap, r.c), ret |-> Len(heap) + 1, err |-> "nil"]

NoConfigCall == [op |-> "none", recv |-> 0, ret |-> 0, err |-> "nil", opts |-> <<>>, calls |-> 0]

\* derived, err := c.WithOptions(opts...) on the client at address recv.
ClientWithOptions(recv, opts) ==
    /\ cfgLast.calls < MaxConfigCalls
    /\ recv \in 1 .. Len(cfgHeap)
    /\ cfgHeap' = WithOptions(cfgHeap, recv, opts).heap
    /\ cfgLast' = [op |-> "WithOptions", recv |-> recv,
                   ret |-> WithOptions(cfgHeap, recv, opts).ret,
                   err |-> WithOptions(cfgHeap, recv, opts).err,
                   opts |-> opts, calls |-> cfgLast.calls + 1]
    /\ UNCHANGED cfgOrig

\* The configuration of a derived client is changed afterwards: an option is
\* called on it directly, opt(derived).
ClientChange(addr, o) ==
    /\ cfgLast.calls < MaxConfigCalls
    /\ addr \in 2 .. Len(cfgHeap)
    /\ cfgHeap' = [cfgHeap EXCEPT ![addr] = CallOption(@, o).c]
    /\ cfgLast' = [op |-> "change", recv |-> addr, ret |-> 0,
                   err |-> CallOption(cfgHeap[addr], o).err,
                   opts |-> <<o>>, calls |-> cfgLast.calls + 1]
    /\ UNCHANGED cfgOrig

\* "t", "ds2", "custom", "1s"
TokenT == <<116>>

\* Options for WithOptions: one for every field, and one that fails.
ConfigOptions ==
    {WithToken(TokenT), WithDataset(<<100, 115, 50>>), WithCDN(TRUE),
     WithBaseURL(Http, LocalHost), WithHTTPClient(<<99, 117, 115, 116, 111, 109>>),
     WithCallbacks(TRUE), WithBackoff(FALSE, <<49, 115>>), FailingOption(TokenT)}

\* No option, every option alone, every option before and after the failing
\* one, the token and the CDN toggle together.
ConfigOptionLists ==
    {<<>>} \cup {<<o>> : o \in ConfigOptions}
        \cup {<<o, FailingOption(TokenT)>> : o \in ConfigOptions}
        \cup {<<FailingOption(TokenT), o>> : o \in ConfigOptions}
        \cup {<<WithToken(TokenT), WithCDN(TRUE)>>, <<WithCDN(TRUE), WithCDN(FALSE)>>}

\* The original: VersionV1.NewClient("p") with no option, with a token
\* "bork", or with the CDN and callbacks.
CfgInit ==
    /\ \E opts \in {<<>>, <<WithToken(<<98, 111, 114, 107>>)>>,
                    <<WithCDN(TRUE), WithCallbacks(TRUE)>>} :
          cfgHeap = <<NewClientOneURL(VersionV1, ProjectID, opts).c>>
    /\ cfgOrig = cfgHeap[1]
    /\ cfgLast = NoConfigCall

\* No client of that file is in use.
CfgIdle ==
    /\ cfgHeap = <<>>
    /\ cfgOrig = <<>>
    /\ cfgLast = NoConfigCall

-----------------------------------------------------------------------------
(* Specifications                                                          *)

\* Executor calls running concurrently on one Client.
Init == ExecInit /\ SigIdle /\ QrIdle /\ DocsIdle /\ QueryIdle /\ MutIdle /\ ReqIdle /\ MsgIdle /\ CfgIdle

Next ==
    \E c \in Calls :
        \/ Begin(c) /\ UNCHANGED <<sigVars, qrVars, docVars, queryVars, mutVars, reqVars, msgVars, cfgVars>>
        \/ HTTPRequest(c) /\ UNCHANGED <<sigVars, qrVars, docVars, queryVars, mutVars, reqVars, msgVars, cfgVars>>
        \/ DoCancelled(c) /\ UNCHANGED <<sigVars, qrVars, docVars, queryVars, mutVars, reqVars, msgVars, cfgVars>>
        \/ DoError(c) /\ UNCHANGED <<sigVars, qrVars, docVars, queryVars, mutVars, reqVars, msgVars, cfgVars>>
        \/ Do(c) /\ UNCHANGED <<sigVars, qrVars, docVars, queryVars, mutVars, reqVars, msgVars, cfgVars>>
        \/ Callback(c) /\ UNCHANGED <<sigVars, qrVars, docVars, queryVars, mutVars, reqVars, msgVars, cfgVars>>
        \/ Sleep(c) /\ UNCHANGED <<sigVars, qrVars, docVars, queryVars, mutVars, reqVars, msgVars, cfgVars>>
        \/ Cancel(c) /\ UNCHANGED <<sigVars, qrVars, docVars, queryVars, mutVars, reqVars, msgVars, cfgVars>>
        \/ Return(c) /\ UNCHANGED <<sigVars, qrVars, docVars, queryVars, mutVars, reqVars, msgVars, cfgVars>>

Spec == Init /\ [][Next]_vars

\* One executor call, under fair scheduling. The goroutine takes its
\* own steps, time.Sleep returns and c.hc.Do returns; and either the caller
\* cancels the context of a call in progress at some time, or the server,
\* asked again and again, at some time gives an answer that is not retried.
LiveCall == "call1"

\* c.hc.Do returns: with the context's error, the transport's, or a response.
TransportReturns(c) == DoCancelled(c) \/ DoError(c) \/ Do(c)

\* The server answers with a 2xx status or with one that is not retried.
FinalAnswer(c) ==
    \E s \in Statuses, decodeOK \in BOOLEAN :
        /\ IsSuccess(s) \/ ~isStatusCodeRetriable(s)
        /\ DoResponse(c, s, decodeOK)

\* What the executor leaves alone.
NotExec == <<sigVars, qrVars, docVars, queryVars, mutVars, reqVars, msgVars, cfgVars>>

LiveNext ==
    \/ Begin(LiveCall) /\ UNCHANGED NotExec
    \/ HTTPRequest(LiveCall) /\ UNCHANGED NotExec
    \/ DoCancelled(LiveCall) /\ UNCHANGED NotExec
    \/ DoError(LiveCall) /\ UNCHANGED NotExec
    \/ Do(LiveCall) /\ UNCHANGED NotExec
    \/ Callback(LiveCall) /\ UNCHANGED NotExec
    \/ Sleep(LiveCall) /\ UNCHANGED NotExec
    \/ Cancel(LiveCall) /\ UNCHANGED NotExec

Fairness ==
    /\ WF_vars(HTTPRequest(LiveCall) /\ UNCHANGED NotExec)
    /\ WF_vars(TransportReturns(LiveCall) /\ UNCHANGED NotExec)
    /\ WF_vars(Callback(LiveCall) /\ UNCHANGED NotExec)
    /\ WF_vars(Sleep(LiveCall) /\ UNCHANGED NotExec)
    /\ \/ WF_vars(Cancel(LiveCall) /\ UNCHANGED NotExec)
       \/ SF_vars(FinalAnswer(LiveCall) /\ UNCHANGED NotExec)

LiveSpec == Init /\ [][LiveNext]_vars /\ Fairness

\* The executor is not in use.
ExecIdle ==
    /\ ExecInit
    /\ onErrorWillRetry = FALSE

\* Webhook verification of one header value against one payload.
SigNext ==
    \/ VerifySignature /\ UNCHANGED <<execVars, qrVars, docVars, queryVars, mutVars, reqVars, msgVars, cfgVars>>
    \/ VerifyRequest /\ UNCHANGED <<execVars, qrVars, docVars, queryVars, mutVars, reqVars, msgVars, cfgVars>>
    \/ ReadBody /\ UNCHANGED <<execVars, qrVars, docVars, queryVars, mutVars, reqVars, msgVars, cfgVars>>

InitSig == ExecIdle /\ SigInit /\ QrIdle /\ DocsIdle /\ QueryIdle /\ MutIdle /\ ReqIdle /\ MsgIdle /\ CfgIdle

SpecSig == InitSig /\ [][SigNext]_vars

\* Decoding of query results into one destination variable.
QrNext ==
    \/ Unmarshal /\ UNCHANGED <<execVars, sigVars, docVars, queryVars, mutVars, reqVars, msgVars, cfgVars>>
    \/ UnmarshalAgain /\ UNCHANGED <<execVars, sigVars, docVars, queryVars, mutVars, reqVars, msgVars, cfgVars>>

InitQr == ExecIdle /\ SigIdle /\ QrInit /\ DocsIdle /\ QueryIdle /\ MutIdle /\ ReqIdle /\ MsgIdle /\ CfgIdle

SpecQr == InitQr /\ [][QrNext]_vars

\* One GetDocuments(ids...).Do(ctx) on a Client, down to the executor.
DocsNext ==
    \/ GetDocumentsDo /\ UNCHANGED <<sigVars, qrVars, queryVars, mutVars, reqVars, msgVars, cfgVars>>
    \/ HTTPRequest(DocsCall) /\ UNCHANGED <<sigVars, qrVars, docVars, queryVars, mutVars, reqVars, msgVars, cfgVars>>
    \/ DoCancelled(DocsCall) /\ UNCHANGED <<sigVars, qrVars, docVars, queryVars, mutVars, reqVars, msgVars, cfgVars>>
    \/ DoError(DocsCall) /\ UNCHANGED <<sigVars, qrVars, docVars, queryVars, mutVars, reqVars, msgVars, cfgVars>>
    \/ Do(DocsCall) /\ UNCHANGED <<sigVars, qrVars, docVars, queryVars, mutVars, reqVars, msgVars, cfgVars>>
    \/ Callback(DocsCall) /\ UNCHANGED <<sigVars, qrVars, docVars, queryVars, mutVars, reqVars, msgVars, cfgVars>>
    \/ Sleep(DocsCall) /\ UNCHANGED <<sigVars, qrVars, docVars, queryVars, mutVars, reqVars, msgVars, cfgVars>>
    \/ Cancel(DocsCall) /\ UNCHANGED <<sigVars, qrVars, docVars, queryVars, mutVars, reqVars, msgVars, cfgVars>>
    \/ GetDocumentsReturn /\ UNCHANGED <<sigVars, qrVars, queryVars, mutVars, reqVars, msgVars, cfgVars>>

InitDocs == ExecInit /\ SigIdle /\ QrIdle /\ DocsInit /\ QueryIdle /\ MutIdle /\ ReqIdle /\ MsgIdle /\ CfgIdle

SpecDocs == InitDocs /\ [][DocsNext]_vars

\* One Query(q).Param(...).Do(ctx) on a Client, down to the executor.
QueryNext ==
    \/ (\E name \in ParamNames, val \in ParamValues : Param(name, val))
           /\ UNCHANGED <<execVars, sigVars, qrVars, docVars, mutVars, reqVars, msgVars, cfgVars>>
    \/ QueryDo /\ UNCHANGED <<sigVars, qrVars, docVars, mutVars, reqVars, msgVars, cfgVars>>
    \/ HTTPRequest(QueryCall) /\ UNCHANGED <<sigVars, qrVars, docVars, queryVars, mutVars, reqVars, msgVars, cfgVars>>
    \/ DoCancelled(QueryCall) /\ UNCHANGED <<sigVars, qrVars, docVars, queryVars, mutVars, reqVars, msgVars, cfgVars>>
    \/ DoError(QueryCall) /\ UNCHANGED <<sigVars, qrVars, docVars, queryVars, mutVars, reqVars, msgVars, cfgVars>>
    \/ Do(QueryCall) /\ UNCHANGED <<sigVars, qrVars, docVars, queryVars, mutVars, reqVars, msgVars, cfgVars>>
    \/ Callback(QueryCall) /\ UNCHANGED <<sigVars, qrVars, docVars, queryVars, mutVars, reqVars, msgVars, cfgVars>>
    \/ Sleep(QueryCall) /\ UNCHANGED <<sigVars, qrVars, docVars, queryVars, mutVars, reqVars, msgVars, cfgVars>>
    \/ Cancel(QueryCall) /\ UNCHANGED <<sigVars, qrVars, docVars, queryVars, mutVars, reqVars, msgVars, cfgVars>>
    \/ QueryReturn /\ UNCHANGED <<sigVars, qrVars, docVars, mutVars, reqVars, msgVars, cfgVars>>

InitQuery == ExecInit /\ SigIdle /\ QrIdle /\ DocsIdle /\ QueryInit /\ MutIdle /\ ReqIdle /\ MsgIdle /\ CfgIdle

SpecQuery == InitQuery /\ [][QueryNext]_vars

\* A chain of item calls on one MutationBuilder and its patches, then Do.
MutNext ==
    \/ (\E doc \in Documents : Create(doc))
           /\ UNCHANGED <<execVars, sigVars, qrVars, docVars, queryVars, reqVars, msgVars, cfgVars>>
    \/ (\E doc \in Documents : CreateIfNotExists(doc))
           /\ UNCHANGED <<execVars, sigVars, qrVars, docVars, queryVars, reqVars, msgVars, cfgVars>>
    \/ (\E doc \in Documents : CreateOrReplace(doc))
           /\ UNCHANGED <<execVars, sigVars, qrVars, docVars, queryVars, reqVars, msgVars, cfgVars>>
    \/ Delete(<<100>>) /\ UNCHANGED <<execVars, sigVars, qrVars, docVars, queryVars, reqVars, msgVars, cfgVars>>
    \/ Patch(<<100>>) /\ UNCHANGED <<execVars, sigVars, qrVars, docVars, queryVars, reqVars, msgVars, cfgVars>>
    \/ (\E i \in 1 .. MaxChain, val \in PatchValues : Set(i, <<112>>, val))
           /\ UNCHANGED <<execVars, sigVars, qrVars, docVars, queryVars, reqVars, msgVars, cfgVars>>
    \/ (\E i \in 1 .. MaxChain, val \in PatchValues : SetIfMissing(i, <<112>>, val))
           /\ UNCHANGED <<execVars, sigVars, qrVars, docVars, queryVars, reqVars, msgVars, cfgVars>>
    \/ (\E i \in 1 .. MaxChain, items \in {<<DocInt>>, <<DocInt, DocFunc, DocChan>>} :
            InsertBefore(i, <<112>>, items))
           /\ UNCHANGED <<execVars, sigVars, qrVars, docVars, queryVars, reqVars, msgVars, cfgVars>>
    \/ (\E i \in 1 .. MaxChain, items \in {<<DocInt>>, <<DocInt, DocFunc, DocChan>>} :
            InsertAfter(i, <<112>>, items))
           /\ UNCHANGED <<execVars, sigVars, qrVars, docVars, queryVars, reqVars, msgVars, cfgVars>>
    \/ (\E i \in 1 .. MaxChain, items \in {<<DocInt>>, <<DocInt, DocFunc, DocChan>>} :
            InsertReplace(i, <<112>>, items))
           /\ UNCHANGED <<execVars, sigVars, qrVars, docVars, queryVars, reqVars, msgVars, cfgVars>>
    \/ MutationDo /\ UNCHANGED <<sigVars, qrVars, docVars, queryVars, reqVars, msgVars, cfgVars>>
    \/ HTTPRequest(MutCall) /\ UNCHANGED <<sigVars, qrVars, docVars, queryVars, mutVars, reqVars, msgVars, cfgVars>>
    \/ DoError(MutCall) /\ UNCHANGED <<sigVars, qrVars, docVars, queryVars, mutVars, reqVars, msgVars, cfgVars>>
    \/ (\E s \in {200, 503} : DoResponse(MutCall, s, TRUE))
           /\ UNCHANGED <<sigVars, qrVars, docVars, queryVars, mutVars, reqVars, msgVars, cfgVars>>
    \/ MutationReturn /\ UNCHANGED <<sigVars, qrVars, docVars, queryVars, reqVars, msgVars, cfgVars>>

InitMut == ExecIdle /\ SigIdle /\ QrIdle /\ DocsIdle /\ QueryIdle /\ MutInit /\ ReqIdle /\ MsgIdle /\ CfgIdle

SpecMut == InitMut /\ [][MutNext]_vars

\* Option calls on one MutationBuilder, then Do, down to the executor.
MutOptsNext ==
    \/ (\E v \in Visibilities : Visibility(v))
           /\ UNCHANGED <<execVars, sigVars, qrVars, docVars, queryVars, reqVars, msgVars, cfgVars>>
    \/ (\E id \in TransactionIDs : TransactionID(id))
           /\ UNCHANGED <<execVars, sigVars, qrVars, docVars, queryVars, reqVars, msgVars, cfgVars>>
    \/ (\E b \in BOOLEAN : ReturnIDs(b))
           /\ UNCHANGED <<execVars, sigVars, qrVars, docVars, queryVars, reqVars, msgVars, cfgVars>>
    \/ (\E b \in BOOLEAN : ReturnDocuments(b))
           /\ UNCHANGED <<execVars, sigVars, qrVars, docVars, queryVars, reqVars, msgVars, cfgVars>>
    \/ MutationDo /\ UNCHANGED <<sigVars, qrVars, docVars, queryVars, reqVars, msgVars, cfgVars>>
    \/ HTTPRequest(MutCall) /\ UNCHANGED <<sigVars, qrVars, docVars, queryVars, mutVars, reqVars, msgVars, cfgVars>>
    \/ DoCancelled(MutCall) /\ UNCHANGED <<sigVars, qrVars, docVars, queryVars, mutVars, reqVars, msgVars, cfgVars>>
    \/ DoError(MutCall) /\ UNCHANGED <<sigVars, qrVars, docVars, queryVars, mutVars, reqVars, msgVars, cfgVars>>
    \/ Do(MutCall) /\ UNCHANGED <<sigVars, qrVars, docVars, queryVars, mutVars, reqVars, msgVars, cfgVars>>
    \/ Cancel(MutCall) /\ UNCHANGED <<sigVars, qrVars, docVars, queryVars, mutVars, reqVars, msgVars, cfgVars>>
    \/ MutationReturn /\ UNCHANGED <<sigVars, qrVars, docVars, queryVars, reqVars, msgVars, cfgVars>>

InitMutOpts == ExecInit /\ SigIdle /\ QrIdle /\ DocsIdle /\ QueryIdle /\ MutInit /\ ReqIdle /\ MsgIdle /\ CfgIdle

SpecMutOpts == InitMutOpts /\ [][MutOptsNext]_vars

\* Items and patches of one MutationBuilder, edited through the patch
\* builders it has handed out.
PatchNext ==
    \/ (Create(DocInt))
           /\ UNCHANGED <<execVars, sigVars, qrVars, docVars, queryVars, reqVars, msgVars, cfgVars>>
    \/ (Delete(<<100>>))
           /\ UNCHANGED <<execVars, sigVars, qrVars, docVars, queryVars, reqVars, msgVars, cfgVars>>
    \/ (\E id \in DocumentIDs : Patch(id))
           /\ UNCHANGED <<execVars, sigVars, qrVars, docVars, queryVars, reqVars, msgVars, cfgVars>>
    \/ (\E i \in 1 .. MaxChain : IfRevisionID(i, <<114>>))
           /\ UNCHANGED <<execVars, sigVars, qrVars, docVars, queryVars, reqVars, msgVars, cfgVars>>
    \/ (\E i \in 1 .. MaxChain : PatchQuery(i, <<42>>))
           /\ UNCHANGED <<execVars, sigVars, qrVars, docVars, queryVars, reqVars, msgVars, cfgVars>>
    \/ (\E i \in 1 .. MaxChain : Set(i, <<112>>, DocInt))
           /\ UNCHANGED <<execVars, sigVars, qrVars, docVars, queryVars, reqVars, msgVars, cfgVars>>
    \/ (\E i \in 1 .. MaxChain : SetIfMissing(i, <<112>>, DocInt))
           /\ UNCHANGED <<execVars, sigVars, qrVars, docVars, queryVars, reqVars, msgVars, cfgVars>>
    \/ (\E i \in 1 .. MaxChain : Unset(i, <<(<<112>>)>>))
           /\ UNCHANGED <<execVars, sigVars, qrVars, docVars, queryVars, reqVars, msgVars, cfgVars>>
    \/ (\E i \in 1 .. MaxChain : Inc(i, <<112>>, 1))
           /\ UNCHANGED <<execVars, sigVars, qrVars, docVars, queryVars, reqVars, msgVars, cfgVars>>
    \/ (\E i \in 1 .. MaxChain : Dec(i, <<112>>, 1))
           /\ UNCHANGED <<execVars, sigVars, qrVars, docVars, queryVars, reqVars, msgVars, cfgVars>>
    \/ (\E i \in 1 .. MaxChain, path \in Paths, items \in InsertItems : InsertBefore(i, path, items))
           /\ UNCHANGED <<execVars, sigVars, qrVars, docVars, queryVars, reqVars, msgVars, cfgVars>>
    \/ (\E i \in 1 .. MaxChain, path \in Paths, items \in InsertItems : InsertAfter(i, path, items))
           /\ UNCHANGED <<execVars, sigVars, qrVars, docVars, queryVars, reqVars, msgVars, cfgVars>>
    \/ (\E i \in 1 .. MaxChain, path \in Paths, items \in InsertItems : InsertReplace(i, path, items))
           /\ UNCHANGED <<execVars, sigVars, qrVars, docVars, queryVars, reqVars, msgVars, cfgVars>>
    \/ (\E i \in 1 .. MaxChain : End(i))
           /\ UNCHANGED <<execVars, sigVars, qrVars, docVars, queryVars, reqVars, msgVars, cfgVars>>

InitPatch == ExecIdle /\ SigIdle /\ QrIdle /\ DocsIdle /\ QueryIdle /\ MutInit /\ ReqIdle /\ MsgIdle /\ CfgIdle

SpecPatch == InitPatch /\ [][PatchNext]_vars

\* Path and AppendPath calls on the request of a client.
PathNext ==
    \/ NewClientCall /\ UNCHANGED <<execVars, sigVars, qrVars, docVars, queryVars, mutVars, msgVars, cfgVars>>
    \/ NewAPIRequest /\ UNCHANGED <<execVars, sigVars, qrVars, docVars, queryVars, mutVars, msgVars, cfgVars>>
    \/ (\E elems \in SegmentLists : RequestPath(elems)) /\ UNCHANGED <<execVars, sigVars, qrVars, docVars, queryVars, mutVars, msgVars, cfgVars>>
    \/ (\E elems \in SegmentLists : RequestAppendPath(elems)) /\ UNCHANGED <<execVars, sigVars, qrVars, docVars, queryVars, mutVars, msgVars, cfgVars>>

InitPath ==
    ExecIdle /\ SigIdle /\ QrIdle /\ DocsIdle /\ QueryIdle /\ MutIdle
        /\ ReqInitOver({PlainArgs}) /\ MsgIdle /\ CfgIdle

SpecPath == InitPath /\ [][PathNext]_vars

\* A client made with options, one request of it with Header calls, sent
\* through the executor with its retries.
HeadersNext ==
    \/ NewClientCall /\ UNCHANGED <<execVars, sigVars, qrVars, docVars, queryVars, mutVars, msgVars, cfgVars>>
    \/ NewAPIRequest /\ UNCHANGED <<execVars, sigVars, qrVars, docVars, queryVars, mutVars, msgVars, cfgVars>>
    \/ (reqHist.calls < MaxHeaderCalls /\ RequestMethod("POST")) /\ UNCHANGED <<execVars, sigVars, qrVars, docVars, queryVars, mutVars, msgVars, cfgVars>>
    \/ (\E h \in CallHeaders :
            reqHist.calls < MaxHeaderCalls /\ RequestHeader(h[1], h[2])) /\ UNCHANGED <<execVars, sigVars, qrVars, docVars, queryVars, mutVars, msgVars, cfgVars>>
    \/ RequestDo /\ UNCHANGED <<sigVars, qrVars, docVars, queryVars, mutVars, msgVars, cfgVars>>
    \/ RequestHTTPRequest /\ UNCHANGED <<sigVars, qrVars, docVars, queryVars, mutVars, msgVars, cfgVars>>
    \/ (\E s \in {200, 404, 503} : RequestDoResponse(s, TRUE, <<>>, FALSE)) /\ UNCHANGED <<sigVars, qrVars, docVars, queryVars, mutVars, msgVars, cfgVars>>
    \/ RequestDoError /\ UNCHANGED <<sigVars, qrVars, docVars, queryVars, mutVars, msgVars, cfgVars>>
    \/ Callback(ReqCall) /\ UNCHANGED <<sigVars, qrVars, docVars, queryVars, mutVars, reqVars, msgVars, cfgVars>>
    \/ Sleep(ReqCall) /\ UNCHANGED <<sigVars, qrVars, docVars, queryVars, mutVars, reqVars, msgVars, cfgVars>>
    \/ RequestReturn /\ UNCHANGED <<sigVars, qrVars, docVars, queryVars, mutVars, msgVars, cfgVars>>

InitHeaders ==
    ExecIdle /\ SigIdle /\ QrIdle /\ DocsIdle /\ QueryIdle /\ MutIdle
        /\ ReqInitOver({[PlainArgs EXCEPT !.opts = o] : o \in OptionLists}) /\ MsgIdle /\ CfgIdle

SpecHeaders == InitHeaders /\ [][HeadersNext]_vars

\* Every builder call on the request of a client, in any order, values that
\* do not marshal among the bodies, and the request handed to the executor.
BuildNext ==
    \/ NewClientCall /\ UNCHANGED <<execVars, sigVars, qrVars, docVars, queryVars, mutVars, msgVars, cfgVars>>
    \/ NewAPIRequest /\ UNCHANGED <<execVars, sigVars, qrVars, docVars, queryVars, mutVars, msgVars, cfgVars>>
    \/ (\E m \in {"GET", "POST"} : RequestMethod(m)) /\ UNCHANGED <<execVars, sigVars, qrVars, docVars, queryVars, mutVars, msgVars, cfgVars>>
    \/ (\E elems \in PathInputs : RequestPath(elems)) /\ UNCHANGED <<execVars, sigVars, qrVars, docVars, queryVars, mutVars, msgVars, cfgVars>>
    \/ (\E elems \in PathInputs : RequestAppendPath(elems)) /\ UNCHANGED <<execVars, sigVars, qrVars, docVars, queryVars, mutVars, msgVars, cfgVars>>
    \/ (\E val \in HeaderTexts : RequestHeader(<<102, 111, 111>>, val)) /\ UNCHANGED <<execVars, sigVars, qrVars, docVars, queryVars, mutVars, msgVars, cfgVars>>
    \/ (\E val \in ParamInputs : RequestParam(<<97>>, val)) /\ UNCHANGED <<execVars, sigVars, qrVars, docVars, queryVars, mutVars, msgVars, cfgVars>>
    \/ (\E t \in TagInputs : RequestTag(t[1], t[2])) /\ UNCHANGED <<execVars, sigVars, qrVars, docVars, queryVars, mutVars, msgVars, cfgVars>>
    \/ RequestBody(<<123, 125>>) /\ UNCHANGED <<execVars, sigVars, qrVars, docVars, queryVars, mutVars, msgVars, cfgVars>>
    \/ (\E r \in {NilBody, BytesReader(<<49>>)} : RequestReadBody(r)) /\ UNCHANGED <<execVars, sigVars, qrVars, docVars, queryVars, mutVars, msgVars, cfgVars>>
    \/ (\E val \in BodyValues : RequestMarshalBody(val)) /\ UNCHANGED <<execVars, sigVars, qrVars, docVars, queryVars, mutVars, msgVars, cfgVars>>
    \/ RequestDo /\ UNCHANGED <<sigVars, qrVars, docVars, queryVars, mutVars, msgVars, cfgVars>>
    \/ RequestHTTPRequest /\ UNCHANGED <<sigVars, qrVars, docVars, queryVars, mutVars, msgVars, cfgVars>>
    \/ (\E s \in {200, 404} : RequestDoResponse(s, TRUE, <<>>, FALSE)) /\ UNCHANGED <<sigVars, qrVars, docVars, queryVars, mutVars, msgVars, cfgVars>>
    \/ RequestDoError /\ UNCHANGED <<sigVars, qrVars, docVars, queryVars, mutVars, msgVars, cfgVars>>
    \/ RequestReturn /\ UNCHANGED <<sigVars, qrVars, docVars, queryVars, mutVars, msgVars, cfgVars>>

InitBuild ==
    ExecIdle /\ SigIdle /\ QrIdle /\ DocsIdle /\ QueryIdle /\ MutIdle
        /\ ReqInitOver({PlainArgs}) /\ MsgIdle /\ CfgIdle

SpecBuild == InitBuild /\ [][BuildNext]_vars

\* Requests with and without a body, sent by the executor and by performGET,
\* answered with every status.
ErrNext ==
    \/ NewClientCall /\ UNCHANGED <<execVars, sigVars, qrVars, docVars, queryVars, mutVars, msgVars, cfgVars>>
    \/ NewAPIRequest /\ UNCHANGED <<execVars, sigVars, qrVars, docVars, queryVars, mutVars, msgVars, cfgVars>>
    \/ RequestMethod("POST") /\ UNCHANGED <<execVars, sigVars, qrVars, docVars, queryVars, mutVars, msgVars, cfgVars>>
    \/ RequestMarshalBody(DocInt) /\ UNCHANGED <<execVars, sigVars, qrVars, docVars, queryVars, mutVars, msgVars, cfgVars>>
    \/ RequestDo /\ UNCHANGED <<sigVars, qrVars, docVars, queryVars, mutVars, msgVars, cfgVars>>
    \/ RequestHTTPRequest /\ UNCHANGED <<sigVars, qrVars, docVars, queryVars, mutVars, msgVars, cfgVars>>
    \/ (\E s \in Statuses, k \in ResponseKinds :
            RequestDoResponse(s, TRUE, k.body, k.readFails)) /\ UNCHANGED <<sigVars, qrVars, docVars, queryVars, mutVars, msgVars, cfgVars>>
    \/ RequestDoError /\ UNCHANGED <<sigVars, qrVars, docVars, queryVars, mutVars, msgVars, cfgVars>>
    \/ Callback(ReqCall) /\ UNCHANGED <<sigVars, qrVars, docVars, queryVars, mutVars, reqVars, msgVars, cfgVars>>
    \/ Sleep(ReqCall) /\ UNCHANGED <<sigVars, qrVars, docVars, queryVars, mutVars, reqVars, msgVars, cfgVars>>
    \/ RequestReturn /\ UNCHANGED <<sigVars, qrVars, docVars, queryVars, mutVars, msgVars, cfgVars>>
    \/ PerformGET(QueryPath) /\ UNCHANGED <<execVars, sigVars, qrVars, docVars, queryVars, mutVars, msgVars, cfgVars>>
    \/ (\E s \in Statuses, k \in ResponseKinds :
            PerformGETResponse(s, TRUE, k.body, k.readFails)) /\ UNCHANGED <<execVars, sigVars, qrVars, docVars, queryVars, mutVars, msgVars, cfgVars>>
    \/ PerformGETError /\ UNCHANGED <<execVars, sigVars, qrVars, docVars, queryVars, mutVars, msgVars, cfgVars>>

InitErr ==
    ExecIdle /\ SigIdle /\ QrIdle /\ DocsIdle /\ QueryIdle /\ MutIdle
        /\ ReqInitOver({PlainArgs}) /\ MsgIdle /\ CfgIdle

SpecErr == InitErr /\ [][ErrNext]_vars

\* A version string validated, a client made from it, and a request of that
\* client sent.
VersionNext ==
    \/ ValidateCall /\ UNCHANGED <<execVars, sigVars, qrVars, docVars, queryVars, mutVars, msgVars, cfgVars>>
    \/ NewClientCall /\ UNCHANGED <<execVars, sigVars, qrVars, docVars, queryVars, mutVars, msgVars, cfgVars>>
    \/ NewAPIRequest /\ UNCHANGED <<execVars, sigVars, qrVars, docVars, queryVars, mutVars, msgVars, cfgVars>>
    \/ (\E elems \in PathInputs : RequestAppendPath(elems)) /\ UNCHANGED <<execVars, sigVars, qrVars, docVars, queryVars, mutVars, msgVars, cfgVars>>
    \/ RequestDo /\ UNCHANGED <<sigVars, qrVars, docVars, queryVars, mutVars, msgVars, cfgVars>>
    \/ RequestHTTPRequest /\ UNCHANGED <<sigVars, qrVars, docVars, queryVars, mutVars, msgVars, cfgVars>>
    \/ (\E s \in {200, 404} : RequestDoResponse(s, TRUE, <<>>, FALSE)) /\ UNCHANGED <<sigVars, qrVars, docVars, queryVars, mutVars, msgVars, cfgVars>>
    \/ RequestReturn /\ UNCHANGED <<sigVars, qrVars, docVars, queryVars, mutVars, msgVars, cfgVars>>

InitVersion ==
    ExecIdle /\ SigIdle /\ QrIdle /\ DocsIdle /\ QueryIdle /\ MutIdle
        /\ ReqInitOver([version : Versions, projectID : {<<>>, ProjectID},
                        dataset : {<<>>, Dataset}, opts : {<<>>}]) /\ MsgIdle /\ CfgIdle

SpecVersion == InitVersion /\ [][VersionNext]_vars

\* A client made with CDN and host options, and a query request of it sent.
HostNext ==
    \/ NewClientCall /\ UNCHANGED <<execVars, sigVars, qrVars, docVars, queryVars, mutVars, msgVars, cfgVars>>
    \/ NewQueryRequest /\ UNCHANGED <<execVars, sigVars, qrVars, docVars, queryVars, mutVars, msgVars, cfgVars>>
    \/ (\E elems \in PathInputs : RequestAppendPath(elems)) /\ UNCHANGED <<execVars, sigVars, qrVars, docVars, queryVars, mutVars, msgVars, cfgVars>>
    \/ RequestDo /\ UNCHANGED <<sigVars, qrVars, docVars, queryVars, mutVars, msgVars, cfgVars>>
    \/ RequestHTTPRequest /\ UNCHANGED <<sigVars, qrVars, docVars, queryVars, mutVars, msgVars, cfgVars>>
    \/ (\E s \in {200, 404} : RequestDoResponse(s, TRUE, <<>>, FALSE)) /\ UNCHANGED <<sigVars, qrVars, docVars, queryVars, mutVars, msgVars, cfgVars>>
    \/ RequestReturn /\ UNCHANGED <<sigVars, qrVars, docVars, queryVars, mutVars, msgVars, cfgVars>>

InitHost ==
    ExecIdle /\ SigIdle /\ QrIdle /\ DocsIdle /\ QueryIdle /\ MutIdle
        /\ ReqInitOver({[PlainArgs EXCEPT !.opts = o] : o \in HostOptionLists}) /\ MsgIdle /\ CfgIdle

SpecHost == InitHost /\ [][HostNext]_vars

\* Clients derived with WithOptions from an original and from each other, and
\* options called on the derived ones afterwards.
ConfigNext ==
    \/ (\E recv \in 1 .. MaxConfigCalls + 1, opts \in ConfigOptionLists :
            ClientWithOptions(recv, opts)) /\ UNCHANGED <<execVars, sigVars, qrVars, docVars, queryVars, mutVars, reqVars, msgVars>>
    \/ (\E addr \in 2 .. MaxConfigCalls + 1, o \in ConfigOptions :
            ClientChange(addr, o)) /\ UNCHANGED <<execVars, sigVars, qrVars, docVars, queryVars, mutVars, reqVars, msgVars>>

InitConfig ==
    ExecIdle /\ SigIdle /\ QrIdle /\ DocsIdle /\ QueryIdle /\ MutIdle /\ ReqIdle /\ MsgIdle
        /\ CfgInit

SpecConfig == InitConfig /\ [][ConfigNext]_vars

\* Error() called on the *RequestError of a call that has returned.
MsgNext ==
    \/ ErrorCall /\ UNCHANGED <<execVars, sigVars, qrVars, docVars, queryVars, mutVars, cfgVars>>

InitMsg ==
    ExecIdle /\ SigIdle /\ QrIdle /\ DocsIdle /\ QueryIdle /\ MutIdle /\ CfgIdle
        /\ MsgInit

SpecMsg == InitMsg /\ [][MsgNext]_vars


-----------------------------------------------------------------------------
(* Claims about the executor, checked under Spec.                          *)

RetriableMethods == {"GET", "HEAD", "DELETE", "OPTIONS"}

RetriableStatuses == {503, 504, 408}

\* C1: after a non-2xx response the call is on the retry path (and only then
\* sends again) if and only if the method is one of GET, HEAD, DELETE, OPTIONS
\* and the status is one of 503, 504, 408; in every other non-2xx case it has
\* returned a *RequestError for that response and sends nothing more.
C1_RetryIffMethodAndStatusRetriable ==
    \A c \in Calls :
        /\ pc[c] \in {"callback", "sleep"} =>
              /\ method[c] \in RetriableMethods
              /\ lastStatus[c] \in RetriableStatuses
        /\ sends[c] >= 2 => method[c] \in RetriableMethods
        /\ (pc[c] = "done" /\ lastStatus[c] # 0 /\ ~transportFailed[c]
                /\ ~(lastStatus[c] >= 200 /\ lastStatus[c] <= 299)) =>
              /\ result[c] = [kind |-> "RequestError", status |-> lastStatus[c]]
              /\ ~(method[c] \in RetriableMethods /\ lastStatus[c] \in RetriableStatuses)
              /\ sends[c] = nresp[c]

\* A POST was answered 503 and returned after that single response, while
\* another call is retrying a GET.
C1_Witness ==
    \E c, d \in Calls :
        /\ pc[c] = "done" /\ method[c] = "POST" /\ sends[c] = 1
        /\ result[c] = [kind |-> "RequestError", status |-> 503]
        /\ method[d] = "GET" /\ sends[d] = 2 /\ pc[d] = "sleep" /\ lastStatus[d] = 503

\* C2: once the context of a call that has received a retriable response is
\* cancelled, the call performs no further backoff sleep and sends no further
\* request.
C2_NoSleepNoSendAfterCancel ==
    [][\A c \in Calls :
          (ctxDone[c] /\ nresp[c] >= 1 /\ pc[c] \in {"callback", "sleep", "build", "send"})
              => (sleeps'[c] <= sleeps[c] /\ sends'[c] <= sends[c])]_vars

\* C3: every call advances only its own backoff counter, which starts at zero,
\* and the backoff stored in the Client is never modified.
C3_OwnBackoffCounter ==
    /\ clientBackoff = 0
    /\ \A c \in Calls : bckoff[c] = sleeps[c]

\* Two calls in progress at once have slept a different number of times.
C3_Witness ==
    \E c, d \in Calls :
        /\ pc[c] = "send" /\ sleeps[c] = 2 /\ bckoff[c] = 2
        /\ pc[d] = "send" /\ sleeps[d] = 1 /\ bckoff[d] = 1

\* C4: when the transport returns an error on any attempt the call has
\* returned that error: nothing was sent, slept or called back after it,
\* whatever the method.
C4_TransportErrorIsFinal ==
    \A c \in Calls :
        transportFailed[c] =>
            /\ pc[c] = "done"
            /\ result[c] = [kind |-> "transportErr", status |-> 0]
            /\ sleeps[c] = nresp[c]
            /\ cbCount[c] = IF onErrorWillRetry THEN nresp[c] ELSE 0
            /\ sends[c] <= nresp[c] + 1

\* The transport failed on the second attempt of a GET and on the first of a POST.
C4_Witness ==
    \E c, d \in Calls :
        /\ transportFailed[c] /\ method[c] = "GET" /\ sends[c] = 2 /\ nresp[c] = 1
        /\ transportFailed[d] /\ method[d] = "POST" /\ sends[d] = 1
        /\ onErrorWillRetry

-----------------------------------------------------------------------------
(* Claims about the signature verification, checked under SpecSig.         *)

\* The signed-header format as the specification words it: "t=", one or more
\* digits, one or more of ',' and ' ', "v1=", and a non-empty signature that
\* holds neither ',' nor ' ', with nothing before or after.
HeaderFormat(s) ==
    \E d \in {RunLen(s, 3, Digits)} : \E k \in {RunLen(s, 3 + d, {44, 32})} :
        /\ d >= 1 /\ k >= 1
        /\ Len(s) >= d + k + 6
        /\ s[1] = 116 /\ s[2] = 61
        /\ s[3 + d + k] = 118 /\ s[4 + d + k] = 49 /\ s[5 + d + k] = 61
        /\ \A i \in (6 + d + k) .. Len(s) : s[i] # 44 /\ s[i] # 32

\* The timestamp of a header of that format, as a number.
HeaderTimestamp(s) == StripZeros(SubSeq(s, 3, 2 + RunLen(s, 3, Digits)))

\* The signature of a header of that format.
HeaderSignature(s) ==
    LET d == RunLen(s, 3, Digits)
    IN  SubSeq(s, 6 + d + RunLen(s, 3 + d, {44, 32}), Len(s))

Floor == <<49,54,48,57,52,53,57,50,48,48,48,48,48>>

\* C7: for a header of the format whose timestamp is at or above
\* 1609459200000, IsValidSignature returns (true, no error) exactly when the
\* signature is the MAC of "<timestamp>.<payload>" under the secret, and
\* (false, no error) otherwise, whichever separator the header uses.
C7_ValidIffSignatureIsTheMAC ==
    (sigPc = "sigDone" /\ HeaderFormat(sigHeader)
        /\ ~DecLess(HeaderTimestamp(sigHeader), Floor)) =>
            /\ sigOut.err = "none"
            /\ sigOut.valid =
                 (HeaderSignature(sigHeader) =
                    generateHS256Signature(sigPayload, HeaderTimestamp(sigHeader), sigSecret))

\* C8: for a syntactically valid header whose timestamp is below
\* 1609459200000, IsValidSignature returns an error, never true and never
\* (false, no error), also when the signature is the right one.
C8_BelowFloorIsAnError ==
    (sigPc = "sigDone" /\ HeaderFormat(TrimSpace(sigHeader))
        /\ DecLess(HeaderTimestamp(TrimSpace(sigHeader)), Floor)) =>
            /\ sigOut.err # "none"
            /\ ~sigOut.valid

\* The header is exactly the one the secret signs for the payload at
\* 1500000000000, and the verification failed on the timestamp.
C8_Witness ==
    /\ sigPc = "sigDone"
    /\ sigHeader = <<116, 61>> \o TsOld \o <<44, 118, 49, 61>>
                      \o generateHS256Signature(sigPayload, TsOld, sigSecret)
    /\ sigOut = [valid |-> FALSE, err |-> "invalid signature timestamp"]

C10_BodyIsReadableAgain ==
    (sigPc = "read" /\ sigOut.err \in {"none", "validate signature"}) =>
        downstream = sigPayload

\* A request whose signature check ended in an error was read in full afterwards.
C10_Witness ==
    /\ sigPc = "read"
    /\ sigOut.err = "validate signature"
    /\ downstream = sigPayload
    /\ Len(downstream) = 2

-----------------------------------------------------------------------------
(* Claims about QueryResult.Unmarshal, checked under SpecQr.               *)

\* C5: Unmarshal(dest) on a result whose Result is absent returns no error and
\* leaves the caller's destination variable equal to the zero value of its
\* type, whatever it held before.
C5_AbsentResultZeroesDestination ==
    (qrPc = "done" /\ qrResult.nil /\ destPassed = "ptr") =>
        /\ qrErr = "none"
        /\ destVar.val = Zero(destVar.type)

-----------------------------------------------------------------------------
(* Claims about GetDocuments, checked under SpecDocs.                      *)

\* C6: GetDocuments() with no document id returns an empty result (a response
\* with nil Documents) and no error, and performs no HTTP request.
C6_NoIdsGivesEmptyResult ==
    (docsPc = "done" /\ Len(docIDs) = 0) =>
        /\ docsOut = [err |-> "none", resp |-> "empty"]
        /\ sends[DocsCall] = 0

\* The ids of a GetDocuments call written out as the claim words them: every
\* id in the given order, a ',' before each but the first.
RECURSIVE CommaList(_)
CommaList(ids) ==
    IF Len(ids) = 0 THEN <<>>
    ELSE IF Len(ids) = 1 THEN ids[1]
    ELSE CommaList(SubSeq(ids, 1, Len(ids) - 1)) \o <<44>> \o ids[Len(ids)]

\* The URL of the document endpoint for a list of ids:
\* https://p.api.sanity.io/v1/data/doc/ds/<id1>,<id2>,... with the ids as one
\* final segment (percent-encoded); a segment that is empty is none.
DocEndpoint(ids) ==
    LET prefix == <<104, 116, 116, 112, 115, 58, 47, 47, 112, 46, 97, 112, 105, 46,
                    115, 97, 110, 105, 116, 121, 46, 105, 111, 47, 118, 49, 47, 100,
                    97, 116, 97, 47, 100, 111, 99, 47, 100, 115>>
        seg    == EscapedPath(CommaList(ids))
    IN  IF seg = <<>> THEN prefix ELSE prefix \o <<47>> \o seg

\* C21: GetDocuments with a non-empty id list puts the ids, joined with ','
\* in the given order, into one final path segment.  When the encoded URL is
\* longer than 1024 characters Do returns an *InvalidRequestError and no HTTP
\* request is made; when it is at most 1024 characters a GET to that URL is
\* handed to the executor.
C21_IdsJoinedAndLimitChecked ==
    (docsPc \in {"calling", "done"} /\ Len(docIDs) > 0) =>
        IF Len(DocEndpoint(docIDs)) > 1024
          THEN /\ docsPc = "done"
               /\ docsOut = [err |-> "InvalidRequestError: max URL length exceeded",
                             resp |-> "nil"]
               /\ pc[DocsCall] = "idle"
               /\ sends[DocsCall] = 0
          ELSE /\ docsReq = DocEndpoint(docIDs)
               /\ method[DocsCall] = "GET"
               /\ pc[DocsCall] # "idle"
               /\ docsOut.err \notin {"InvalidRequestError: max URL length exceeded",
                                       "InvalidRequestError: no document ID specified"}

\* A single id whose URL is exactly 1024 characters long went out as a GET.
C21_Witness ==
    /\ docIDs = <<IdAtLimit>>
    /\ Len(docsReq) = 1024
    /\ sends[DocsCall] >= 1
    /\ docsPc = "done"

-----------------------------------------------------------------------------
(* Claims about the request builder's path (SpecPath)                      *)

\* A segment without the separators at its ends.
RECURSIVE TrimSeparators(_)
TrimSeparators(seg) ==
    IF Len(seg) = 0 THEN seg
    ELSE IF seg[1] = 47 THEN TrimSeparators(Tail(seg))
    ELSE IF seg[Len(seg)] = 47 THEN TrimSeparators(SubSeq(seg, 1, Len(seg) - 1))
    ELSE seg

\* The segments of a sequence that are left when the separators at the ends
\* of every segment are removed and then the segments that are empty.
CleanSegments(elems) ==
    SelectSeq([i \in 1 .. Len(elems) |-> TrimSeparators(elems[i])], LAMBDA e : e # <<>>)

HasDoubledSeparator(path) ==
    \E i \in 1 .. Len(path) - 1 : path[i] = 47 /\ path[i + 1] = 47

\* C22: whatever segments Path and AppendPath were given (empty ones, "/",
\* ones that begin or end with '/'), the path has no doubled separator, and
\* between every two consecutive non-empty segments there is exactly one.
C22_NoDoubledSeparator ==
    reqPc = "building" =>
        /\ ~HasDoubledSeparator(request.path)
        /\ TrimSeparators(request.path) = Join(CleanSegments(reqHist.elems), <<47>>)

\* C23: the path made from a sequence of segments is the path made from the
\* sequence without its empty segments, its separator-only segments and the
\* separators at the ends of its segments.
C23_SameAsCleanedSequence ==
    reqPc = "building" =>
        request.path = AppendPath(<<>>, CleanSegments(reqHist.elems))

-----------------------------------------------------------------------------
(* Claims about the headers of the requests sent (SpecHeaders)             *)

\* Header names are compared without regard to case.
SameName(a, b) ==
    /\ Len(a) = Len(b)
    /\ \A i \in 1 .. Len(a) : ToLower(a[i]) = ToLower(b[i])

\* The token the client is configured with: that of the last WithToken among
\* the options, none without one.
RECURSIVE ConfiguredToken(_)
ConfiguredToken(opts) ==
    IF Len(opts) = 0 THEN <<>>
    ELSE IF opts[Len(opts)].opt = "WithToken" THEN opts[Len(opts)].value
    ELSE ConfiguredToken(SubSeq(opts, 1, Len(opts) - 1))

\* The values the caller added for a name, in call order: those of the
\* WithHTTPHeader options of the client, then those of the Header calls on
\* the request.
AddedValues(name) ==
    LET fromOpts  == SelectSeq(ncArgs.opts,
                         LAMBDA o : o.opt = "WithHTTPHeader" /\ SameName(o.key, name))
        fromCalls == SelectSeq(reqHist.added, LAMBDA a : SameName(a.name, name))
    IN  [i \in 1 .. Len(fromOpts) |-> fromOpts[i].value]
            \o [i \in 1 .. Len(fromCalls) |-> fromCalls[i].val]

\* What a sent request carries for a name (none when the name is absent).
Carried(req, name) ==
    LET ks == {k \in DOMAIN req.headers : SameName(k, name)}
    IN  IF ks = {} THEN <<>> ELSE req.headers[CHOOSE k \in ks : TRUE]

\* "Bearer bork"
BearerBork == <<66, 101, 97, 114, 101, 114, 32, 98, 111, 114, 107>>

\* C24: every request sent, GET or POST, first attempt or retry, carries
\* Accept: application/json, and carries Authorization: Bearer <token> if and
\* only if a non-empty token is configured: with a token that value is
\* there, without one Authorization has no value but those the caller added
\* as headers.
C24_AcceptAlwaysBearerIffToken ==
    \A i \in 1 .. Len(sentReqs) :
        LET token == ConfiguredToken(ncArgs.opts)
            auth  == Carried(sentReqs[i], AuthorizationName)
        IN  /\ Len(Carried(sentReqs[i], AcceptName)) >= 1
            /\ Carried(sentReqs[i], AcceptName)[1] = ApplicationJSON
            /\ IF token # <<>>
                 THEN Len(auth) >= 1 /\ auth[1] = Bearer \o token
                 ELSE auth = AddedValues(AuthorizationName)

\* A client with the token "bork" sent a GET, was answered 503 and sent it
\* again; another state of the check is a POST of a client without a token.
C24_Witness ==
    /\ ConfiguredToken(ncArgs.opts) = <<98, 111, 114, 107>>
    /\ Len(sentReqs) = 2
    /\ sentReqs[2].method = "GET"
    /\ Carried(sentReqs[2], AuthorizationName) = <<BearerBork>>

\* The values a request has for a name before the caller adds any: Accept,
\* the user agent, and the bearer token when one is configured.
DefaultValues(name) ==
    IF SameName(name, AcceptName) THEN <<ApplicationJSON>>
    ELSE IF SameName(name, UserAgentName) THEN <<UserAgent>>
    ELSE IF SameName(name, AuthorizationName) /\ ConfiguredToken(ncArgs.opts) # <<>>
      THEN <<Bearer \o ConfiguredToken(ncArgs.opts)>>
    ELSE <<>>

-----------------------------------------------------------------------------
(* Claims about marshal failures of the request builder (SpecBuild)        *)

\* Values json.Marshal has no encoding for.
Unmarshalable(val) == val.kind \in {"chan", "func"}

\* C26: a MarshalBody that fails does not panic and returns the builder with
\* the error stored in it; HTTPRequest then returns the stored error, and the
\* executor called on that builder returns it without sending a request.
C26_MarshalFailureStoredAndReturned ==
    /\ [][\A val \in BodyValues :
              (Unmarshalable(val) /\ RequestMarshalBody(val)) =>
                  /\ reqPc' = "building"
                  /\ request'.err = val.kind
                  /\ [request' EXCEPT !.err = request.err] = request
                  /\ ReqHTTPRequest(request').err = val.kind]_vars
    /\ []((request.err # "nil" /\ reqPc \in {"calling", "done"}) =>
              /\ sentReqs = <<>>
              /\ sends[ReqCall] = 0
              /\ pc[ReqCall] \in {"build", "done"}
              /\ pc[ReqCall] = "done" =>
                     /\ result[ReqCall].kind = "buildErr"
                     /\ reqOut.kind = "buildErr"
                     /\ reqOut.err = request.err)

\* The executor returned the error of the one MarshalBody that failed, and
\* nothing was sent.
C26_Witness ==
    /\ reqPc = "done"
    /\ Len(reqHist.fails) = 1
    /\ reqOut.kind = "buildErr"
    /\ reqOut.err = reqHist.fails[1]
    /\ sentReqs = <<>>

\* C27: once a MarshalBody has failed, every further builder call is inert:
\* method, path, parameters, headers, body and stored error stay as they
\* were when the failure was stored, so the stored error is that of the
\* first failure.
C27_InertAfterMarshalFailure ==
    Len(reqHist.fails) >= 1 =>
        /\ request = reqHist.frozen[1]
        /\ request.err = reqHist.fails[1]

-----------------------------------------------------------------------------
(* Claims about the error of a response that is not 2xx (SpecErr)          *)

\* C28: when a call ends on a response that is not 2xx, the *RequestError
\* returned holds the method and URL of the request that was sent, the status
\* of that response, and as Body the bytes of the response's body (when they
\* can be read); making the error does not fail or panic, whether or not the
\* request had a body.
C28_RequestErrorDescribesTheResponse ==
    (/\ reqPc \in {"done", "panic"}
     /\ lastResp.status # 0
     /\ ~(lastResp.status >= 200 /\ lastResp.status <= 299)) =>
        /\ reqPc = "done"
        /\ reqOut.kind = "RequestError"
        /\ reqOut.method = sentReqs[Len(sentReqs)].method
        /\ reqOut.url = sentReqs[Len(sentReqs)].url
        /\ reqOut.status = lastResp.status
        /\ ~lastResp.readFails => reqOut.body = lastResp.body

-----------------------------------------------------------------------------
(* Claims about API versions (SpecVersion)                                 *)

\* Four digits, '-', two digits, '-', two digits.
DateShaped(s) ==
    /\ Len(s) = 10
    /\ s[5] = 45
    /\ s[8] = 45
    /\ \A i \in {1, 2, 3, 4, 6, 7, 9, 10} : s[i] >= 48 /\ s[i] <= 57

\* "1", "X", or a string of the shape of a date.
WellFormedVersion(s) == s = <<49>> \/ s = <<88>> \/ DateShaped(s)

\* The path a sent request was addressed to begins with "/v" and a version
\* that is not well formed.
MalformedPrefixSent ==
    \E i \in 1 .. Len(sentReqs) :
        /\ ~WellFormedVersion(ncArgs.version)
        /\ LET prefix == <<104, 116, 116, 112, 115, 58, 47, 47, 112, 46, 97, 112, 105,
                           46, 115, 97, 110, 105, 116, 121, 46, 105, 111, 47, 118>>
                              \o EscapedPath(ncArgs.version)
           IN  /\ Len(sentReqs[i].url) >= Len(prefix)
               /\ SubSeq(sentReqs[i].url, 1, Len(prefix)) = prefix

\* C29: making a client from a malformed version string fails with a
\* validation error, so no request with a malformed version prefix in its
\* path is ever sent.
C29_MalformedVersionIsRefused ==
    /\ (reqPc # "new" /\ ~WellFormedVersion(ncArgs.version)) => client.err \notin {"nil", "none"}
    /\ ~MalformedPrefixSent

\* C30: Validate returns no error exactly for "1", "X" and the strings of
\* the shape NNNN-NN-NN, and an error for every other string, among them
\* "", "2021-01" and "20210101".
C30_ValidExactlyWhenWellFormed ==
    versionErr # "none" =>
        /\ (versionErr = "nil") <=> WellFormedVersion(ncArgs.version)
        /\ ncArgs.version \in {<<>>, <<50, 48, 50, 49, 45, 48, 49>>,
                                <<50, 48, 50, 49, 48, 49, 48, 49>>} => versionErr # "nil"

\* "2021-03-25" was validated and found valid; the same check covers the
\* versions it refuses.
C30_Witness ==
    /\ ncArgs.version = <<50, 48, 50, 49, 45, 48, 51, 45, 50, 53>>
    /\ versionErr = "nil"

-----------------------------------------------------------------------------
(* Claims about QueryBuilder (SpecQuery)                                   *)

\* https://p.api.sanity.io/v1/data/query/ds
QueryEndpoint ==
    <<104, 116, 116, 112, 115, 58, 47, 47, 112, 46, 97, 112, 105, 46, 115, 97, 110,
      105, 116, 121, 46, 105, 111, 47, 118, 49, 47, 100, 97, 116, 97, 47, 113, 117,
      101, 114, 121, 47, 100, 115>>

\* The entries of the query string of a URL: the texts between '?', '&' and
\* the end.
QueryEntries(url) ==
    LET n    == Len(url)
        seps == {i \in 1 .. n : url[i] \in {63, 38}}
    IN  {SubSeq(url, i + 1, SetMin({j \in seps \cup {n + 1} : j > i}) - 1) : i \in seps}

\* query=<query> and $<name>=<JSON of the value> for every parameter, escaped.
GetEntries ==
    {<<113, 117, 101, 114, 121, 61>> \o QueryEscape(qbQuery)} \cup
    {<<37, 50, 52>> \o p \o <<61>> \o QueryEscape(jsonMarshal(qbParams[p]).text) :
        p \in DOMAIN qbParams}

RECURSIVE SumLen(_)
SumLen(S) ==
    IF S = {} THEN 0 ELSE LET e == CHOOSE x \in S : TRUE IN Len(e) + 1 + SumLen(S \ {e})

\* C11: a query is sent as GET, with `query` and one `$<name>` entry per
\* parameter, when the URL of that GET request has at most 1024 characters,
\* and as POST when it has more; the URL measured is the URL of the GET
\* request, and the executor is given this one request.
C11_GetUnlessURLTooLong ==
    queryPc \in {"calling", "done"} /\ queryReq.method # "" =>
        /\ SubSeq(queryReq.measured, 1, Len(QueryEndpoint)) = QueryEndpoint
        /\ QueryEntries(queryReq.measured) = GetEntries
        /\ Len(queryReq.measured) = Len(QueryEndpoint) + SumLen(GetEntries)
        /\ queryReq.method = (IF Len(queryReq.measured) <= 1024 THEN "GET" ELSE "POST")
        /\ queryReq.method = "GET" => queryReq.url = queryReq.measured
        /\ queryPc = "calling" /\ pc[QueryCall] # "idle" => method[QueryCall] = queryReq.method

\* A parameterised query whose GET URL has exactly 1024 characters was sent as GET.
C11_Witness ==
    /\ queryPc = "done"
    /\ queryReq.method = "GET"
    /\ Len(queryReq.url) = 1024
    /\ DOMAIN qbParams # {}
    /\ sends[QueryCall] >= 1

\* C12: the body of the POST form has the query and, for every parameter, the
\* JSON text that the GET form carries as `$<name>`; the POST URL has no query
\* string; and the QueryResult is made from the response as for GET.
C12_PostCarriesWhatGetCarries ==
    /\ queryReq.method = "POST" =>
          /\ queryReq.body.present
          /\ queryReq.body.query = qbQuery
          /\ {queryReq.body.params[i] : i \in DOMAIN queryReq.body.params}
                = {[key |-> p, val |-> jsonMarshal(qbParams[p]).text] : p \in DOMAIN qbParams}
          /\ Len(queryReq.body.params) = Cardinality(DOMAIN qbParams)
          /\ \A i \in DOMAIN queryReq.body.params :
                (<<37, 50, 52>> \o queryReq.body.params[i].key \o <<61>>
                    \o QueryEscape(queryReq.body.params[i].val)) \in QueryEntries(queryReq.measured)
          /\ queryReq.url = QueryEndpoint
    /\ queryPc = "done" /\ queryReq.method \in {"GET", "POST"} /\ result[QueryCall].kind = "ok" =>
          queryOut = [err |-> "none", set |-> TRUE, time |-> queryResp.ms,
                      result |-> queryResp.result]

\* A query with a parameter went out as POST and its result came back.
C12_Witness ==
    /\ queryPc = "done"
    /\ queryReq.method = "POST"
    /\ DOMAIN qbParams # {}
    /\ queryOut.set
    /\ queryOut.result = "raw"

-----------------------------------------------------------------------------
(* Claims about MutationBuilder (SpecMut, SpecMutOpts)                     *)

\* C13: the error a chain records is that of its first failing marshal, which
\* later failures do not replace and later successes do not clear; Do then
\* returns an error wrapping it and hands nothing to the executor.
C13_FirstMarshalErrorWins ==
    /\ mbErr = (IF mbHist.failures = <<>> THEN "nil" ELSE mbHist.failures[1])
    /\ mutPc \in {"calling", "done"} /\ mbHist.failures # <<>> =>
          /\ mutPc = "done"
          /\ mutOut = [err |-> "mutation builder", cause |-> mbHist.failures[1],
                       results |-> "nil"]
          /\ mutReq = NoMutationRequest
          /\ pc[MutCall] = "idle"
          /\ sends[MutCall] = 0

\* Two different marshal failures and one call that went well, then Do.
C13_Witness ==
    /\ mutPc = "done"
    /\ Len(mbHist.failures) = 2
    /\ mbHist.failures[1] # mbHist.failures[2]
    /\ Len(mbItems) = 1
    /\ mutOut.cause = mbHist.failures[1]

\* The variants of a mutation item that are populated.
Populated(item) ==
    {v \in {"create", "createIfNotExists", "createOrReplace", "delete", "patch"} :
        \/ v = "create" /\ ~item.create.nil
        \/ v = "createIfNotExists" /\ ~item.createIfNotExists.nil
        \/ v = "createOrReplace" /\ ~item.createOrReplace.nil
        \/ v = "delete" /\ ~item.delete.nil
        \/ v = "patch" /\ ~item.patch.nil}

\* C14: as long as no document failed to marshal, the list has one item per
\* Create, CreateIfNotExists, CreateOrReplace, Delete and Patch call, every
\* item has exactly one variant populated, and Do sends the items in the
\* order of the list.
C14_OneItemPerCallOneVariant ==
    mbHist.failures = <<>> =>
        /\ \A i \in 1 .. Len(mbItems) : Cardinality(Populated(mbItems[i])) = 1
        /\ mutPc = "calling" => mutReq.body.mutations.elems = mbItems

\* C15: Do sends with POST, never GET; one Do call sends at most one request,
\* and a 503, 504 or 408 response is returned as an error, without a retry.
C15_PostSentOnceNeverRetried ==
    /\ mutReq.method \in {"", "POST"}
    /\ mutPc = "calling" /\ pc[MutCall] # "idle" => method[MutCall] = "POST"
    /\ sends[MutCall] <= 1
    /\ sleeps[MutCall] = 0
    /\ pc[MutCall] \notin {"callback", "sleep"}
    /\ pc[MutCall] = "done" /\ lastStatus[MutCall] \in {503, 504, 408} =>
          result[MutCall] = [kind |-> "RequestError", status |-> lastStatus[MutCall]]
    /\ mutPc = "done" /\ lastStatus[MutCall] \in {503, 504, 408} =>
          mutOut = [err |-> "mutate", cause |-> "RequestError", results |-> "nil"]

\* A mutation was sent once, was answered with 503, and Do returned the error.
C15_Witness ==
    /\ mutPc = "done"
    /\ lastStatus[MutCall] = 503
    /\ sends[MutCall] = 1
    /\ mutOut.err = "mutate"

\* C16: Do on a builder without items sends a request whose body has a
\* `mutations` member that is an empty array.
C16_NoItemsSendsEmptyArray ==
    mutPc \in {"calling", "done"} /\ mbItems = <<>> /\ mbErr = "nil" =>
        /\ mutReq.method = "POST"
        /\ ~mutReq.body.err
        /\ ~mutReq.body.mutations.null
        /\ mutReq.body.mutations.elems = <<>>

\* The values a URL's query string gives for a key.
ValuesOf(url, key) ==
    {SubSeq(e, Len(key) + 2, Len(e)) :
        e \in {x \in QueryEntries(url) :
                  Len(x) > Len(key) /\ SubSeq(x, 1, Len(key) + 1) = key \o <<61>>}}

\* C17: the request carries returnIds=false, returnDocuments=true and
\* visibility=sync for an option never set, and otherwise the argument of the
\* last call for that option, whatever was done to the other options.
C17_OptionsAreLastArgumentOrDefault ==
    mutPc \in {"calling", "done"} /\ mutReq.method # "" =>
        /\ ValuesOf(mutReq.url, <<114, 101, 116, 117, 114, 110, 73, 100, 115>>)
              = {IF mbHist.ids.set /\ mbHist.ids.val THEN <<116, 114, 117, 101>>
                 ELSE <<102, 97, 108, 115, 101>>}
        /\ ValuesOf(mutReq.url,
                    <<114, 101, 116, 117, 114, 110, 68, 111, 99, 117, 109, 101, 110, 116, 115>>)
              = {IF mbHist.docs.set /\ ~mbHist.docs.val THEN <<102, 97, 108, 115, 101>>
                 ELSE <<116, 114, 117, 101>>}
        /\ ValuesOf(mutReq.url, <<118, 105, 115, 105, 98, 105, 108, 105, 116, 121>>)
              = {IF mbHist.vis.set THEN mbHist.vis.val ELSE <<115, 121, 110, 99>>}

\* ReturnIDs was called, last with true, Visibility with async, ReturnDocuments
\* never, and the request went out.
C17_Witness ==
    /\ mbCalls = 3
    /\ mbHist.ids = [set |-> TRUE, val |-> TRUE]
    /\ mbHist.vis = [set |-> TRUE, val |-> <<97, 115, 121, 110, 99>>]
    /\ ~mbHist.docs.set
    /\ sends[MutCall] = 1

\* C18 as stated: transactionId is in the URL if and only if TransactionID was
\* called.
C18_TransactionIdIffSet_Original ==
    mutPc \in {"calling", "done"} /\ mutReq.method # "" =>
        (ValuesOf(mutReq.url, <<116, 114, 97, 110, 115, 97, 99, 116, 105, 111, 110, 73, 100>>) # {}
            <=> mbHist.tx.set)

\* C18: transactionId is in the URL if and only if the id last given to
\* TransactionID is not empty, and then with that id; it is never there with
\* an empty value.
C18_TransactionIdIffNonEmpty ==
    mutPc \in {"calling", "done"} /\ mutReq.method # "" =>
        ValuesOf(mutReq.url, <<116, 114, 97, 110, 115, 97, 99, 116, 105, 111, 110, 73, 100>>)
            = (IF mbHist.tx.set /\ mbHist.tx.val # <<>> THEN {mbHist.tx.val} ELSE {})

\* Only TransactionID was called, more than once and last with "", and the
\* request went out.
C18_Witness ==
    /\ mbCalls >= 2
    /\ mbHist.tx = [set |-> TRUE, val |-> <<>>]
    /\ ~mbHist.ids.set /\ ~mbHist.docs.set /\ ~mbHist.vis.set
    /\ sends[MutCall] = 1

-----------------------------------------------------------------------------
(* Claims about PatchBuilder (SpecPatch)                                   *)

\* C19: a call on the PatchBuilder of one patch leaves every other item of
\* the list as it was, and leaves the other variants of its own item nil; End
\* returns the MutationBuilder and changes no item; and a call that adds an
\* item adds it behind all the items there are, patches included.
C19_PatchEditsStayInTheirPatch ==
    [][/\ \A i \in 1 .. Len(mbItems) :
             mbRet' = ThePatchBuilder(i) /\ Len(mbItems') = Len(mbItems) =>
                 /\ \A k \in 1 .. Len(mbItems) : k # i => mbItems'[k] = mbItems[k]
                 /\ Populated(mbItems'[i]) = {"patch"}
                 /\ mbItems'[i].patch.id = mbItems[i].patch.id
       /\ \A i \in 1 .. Len(mbItems) :
             End(i) => mbRet' = TheBuilder /\ mbItems' = mbItems
       /\ Len(mbItems') # Len(mbItems) =>
             /\ Len(mbItems') = Len(mbItems) + 1
             /\ SubSeq(mbItems', 1, Len(mbItems)) = mbItems]_vars

\* Two patches exist and the last of three calls, made on the builder of the
\* first one, has set its revision id: the second patch is as Patch made it.
C19_Witness ==
    /\ mbCalls = 3
    /\ Len(mbItems) = 2
    /\ mbRet = ThePatchBuilder(1)
    /\ mbItems[1].patch.ifRevisionID = <<114>>
    /\ ~mbItems[2].patch.nil
    /\ mbItems[2].patch = [NilPatch EXCEPT !.nil = FALSE, !.id = mbItems[2].patch.id]

\* The anchors of an insert directive that are set.
Anchors(insert) ==
    {a \in {"before", "after", "replace"} :
        \/ a = "before" /\ insert.before # <<>>
        \/ a = "after" /\ insert.after # <<>>
        \/ a = "replace" /\ insert.replace # <<>>}

\* The directive an Insert* call asks for: one anchor with the path, and the
\* JSON of the items in argument order.
Directive(anchor, path, items) ==
    [nil     |-> FALSE,
     before  |-> IF anchor = "before" THEN path ELSE <<>>,
     after   |-> IF anchor = "after" THEN path ELSE <<>>,
     replace |-> IF anchor = "replace" THEN path ELSE <<>>,
     items   |-> [k \in 1 .. Len(items) |-> [nil |-> FALSE, raw |-> items[k].text]]]

\* All the items of an Insert* call marshal.
AllMarshal(items) == \A k \in 1 .. Len(items) : items[k].kind \in {"int", "string"}

\* C20: the insert directive of a patch has exactly one anchor; an Insert*
\* call whose items all marshal replaces the directive by its own anchor, path
\* and items, keeping nothing of the one before; an Insert* call with an item
\* that does not marshal, and every other call, leaves the directive alone.
C20_InsertIsTheLastInsertCall ==
    /\ [](\A i \in 1 .. Len(mbItems) :
             ~mbItems[i].patch.insert.nil =>
                 Cardinality(Anchors(mbItems[i].patch.insert)) = 1)
    /\ [][\A i \in 1 .. Len(mbItems), path \in Paths, items \in InsertItems :
             /\ InsertBefore(i, path, items) =>
                   mbItems'[i].patch.insert =
                       (IF AllMarshal(items) THEN Directive("before", path, items)
                        ELSE mbItems[i].patch.insert)
             /\ InsertAfter(i, path, items) =>
                   mbItems'[i].patch.insert =
                       (IF AllMarshal(items) THEN Directive("after", path, items)
                        ELSE mbItems[i].patch.insert)
             /\ InsertReplace(i, path, items) =>
                   mbItems'[i].patch.insert =
                       (IF AllMarshal(items) THEN Directive("replace", path, items)
                        ELSE mbItems[i].patch.insert)
             /\ mbHist'.inserts = mbHist.inserts /\ Len(mbItems') = Len(mbItems) =>
                   mbItems'[i].patch.insert = mbItems[i].patch.insert]_vars

\* Two Insert* calls went through on the one patch there is, and what is left
\* is the directive of an InsertAfter with two items.
C20_Witness ==
    /\ Len(mbItems) = 1
    /\ mbHist.inserts = 2
    /\ mbItems[1].patch.insert = Directive("after", <<113>>, <<[kind |-> "int", text |-> <<50>>], DocInt>>)

-----------------------------------------------------------------------------
(* Claims about the host of query requests (SpecHost)                      *)

\* Whether a custom host was given among the options, and the last one given.
CustomHostSet(opts) == \E i \in 1 .. Len(opts) : opts[i].opt = "WithHTTPHost"

LastOf(opts, name) ==
    opts[SetMax({i \in 1 .. Len(opts) : opts[i].opt = name})]

\* The CDN toggle after the options: off unless the last WithCDN turned it on.
ToggleOn(opts) ==
    /\ \E i \in 1 .. Len(opts) : opts[i].opt = "WithCDN"
    /\ LastOf(opts, "WithCDN").flag

\* scheme://host/ of the place the claim sends the queries of a client to.
ClaimedQueryOrigin(projectID, opts) ==
    IF CustomHostSet(opts)
      THEN LastOf(opts, "WithHTTPHost").key \o <<58, 47, 47>>
               \o LastOf(opts, "WithHTTPHost").value \o <<47>>
    ELSE IF ToggleOn(opts)
      THEN Https \o <<58, 47, 47>> \o projectID \o APICDNHostSuffix \o <<47>>
      ELSE Https \o <<58, 47, 47>> \o projectID \o APIHostSuffix \o <<47>>

HasPrefix(s, prefix) ==
    Len(s) >= Len(prefix) /\ SubSeq(s, 1, Len(prefix)) = prefix

\* The host the options leave the API with.
HostAfterOptions(projectID, opts) ==
    IF CustomHostSet(opts) THEN LastOf(opts, "WithHTTPHost").value
    ELSE projectID \o APIHostSuffix

SchemeAfterOptions(opts) ==
    IF CustomHostSet(opts) THEN LastOf(opts, "WithHTTPHost").key ELSE Https

\* scheme://host/ of the place the queries go to when the CDN is used exactly
\* if the toggle is on and the API host is still the project's own.
QueryOrigin(projectID, opts) ==
    SchemeAfterOptions(opts) \o <<58, 47, 47>>
        \o (IF ToggleOn(opts) /\ HostAfterOptions(projectID, opts) = projectID \o APIHostSuffix
              THEN projectID \o APICDNHostSuffix
              ELSE HostAfterOptions(projectID, opts))
        \o <<47>>

-----------------------------------------------------------------------------
(* Claims about WithOptions (SpecConfig)                                   *)

HasOption(opts, name) == \E i \in 1 .. Len(opts) : opts[i].opt = name

\* The client c with every field set to what the last option for that field
\* gave, and left as it is where no option was given for it.
Reconfigured(c, opts) ==
    [hc         |-> IF HasOption(opts, "WithHTTPClient")
                      THEN LastOf(opts, "WithHTTPClient").value ELSE c.hc,
     apiVersion |-> c.apiVersion,
     useCDN     |-> IF HasOption(opts, "WithCDN") THEN LastOf(opts, "WithCDN").flag
                      ELSE c.useCDN,
     baseURL    |-> IF HasOption(opts, "WithBaseURL")
                      THEN [scheme |-> LastOf(opts, "WithBaseURL").key,
                            host   |-> LastOf(opts, "WithBaseURL").value,
                            path   |-> <<>>]
                      ELSE c.baseURL,
     token      |-> IF HasOption(opts, "WithToken") THEN LastOf(opts, "WithToken").value
                      ELSE c.token,
     projectID  |-> c.projectID,
     dataset    |-> IF HasOption(opts, "WithDataset")
                      THEN LastOf(opts, "WithDataset").value ELSE c.dataset,
     backoff    |-> IF HasOption(opts, "WithBackoff")
                      THEN [jitter |-> LastOf(opts, "WithBackoff").flag,
                            max    |-> LastOf(opts, "WithBackoff").value]
                      ELSE c.backoff,
     callbacks  |-> IF HasOption(opts, "WithCallbacks")
                      THEN LastOf(opts, "WithCallbacks").flag ELSE c.callbacks]

\* C31: WithOptions leaves its receiver, and every other client, as it was,
\* also when an option fails; when no option fails it returns a new client
\* that is the receiver with the options applied; a change made afterwards to
\* a derived client changes that client only, so that the original keeps the
\* configuration it was made with.
C31_WithOptionsLeavesReceiverUnchanged ==
    /\ [](cfgHeap # <<>> => cfgHeap[1] = cfgOrig)
    /\ [][cfgLast'.calls = cfgLast.calls + 1 =>
            /\ \A a \in 1 .. Len(cfgHeap) :
                   (cfgLast'.op = "WithOptions" \/ a # cfgLast'.recv)
                       => cfgHeap'[a] = cfgHeap[a]
            /\ cfgLast'.op = "WithOptions" =>
                   IF HasOption(cfgLast'.opts, "failing")
                     THEN cfgLast'.err # "nil" /\ cfgLast'.ret = 0 /\ cfgHeap' = cfgHeap
                     ELSE /\ cfgLast'.err = "nil"
                          /\ cfgLast'.ret = Len(cfgHeap) + 1
                          /\ Len(cfgHeap') = Len(cfgHeap) + 1
                          /\ cfgHeap'[cfgLast'.ret] =
                                 Reconfigured(cfgHeap[cfgLast'.recv], cfgLast'.opts)]_vars

\* A client derived from the original had its token changed afterwards, and
\* the two tokens differ.
C31_Witness ==
    /\ Len(cfgHeap) >= 2
    /\ cfgLast.op = "change"
    /\ cfgLast.recv = 2
    /\ cfgHeap[2].token = TokenT
    /\ cfgHeap[1].token # TokenT

-----------------------------------------------------------------------------
(* Claims about the executor's loop (Spec)                                 *)

\* C38: when a call has returned, the body of every response it received is
\* closed, whatever the outcome; and while the call is at the callback or at
\* the backoff sleep that follow a retried response, the body of that response
\* (and of every one before it) is closed already.
C38_EveryBodyClosed ==
    \A c \in Calls :
        /\ Len(bodies[c]) = nresp[c]
        /\ pc[c] \in {"done", "callback", "sleep"} =>
               \A i \in 1 .. Len(bodies[c]) : bodies[c][i] = "closed"

\* A call returned a decoded 200 after two retried responses, and a second
\* call is at its backoff sleep after one response.
C38_Witness ==
    \E c, d \in Calls :
        /\ pc[c] = "done" /\ nresp[c] = 3 /\ result[c] = [kind |-> "ok", status |-> 200]
        /\ bodies[c] = <<"closed", "closed", "closed">>
        /\ pc[d] = "sleep" /\ bodies[d] = <<"closed">>

\* C33: the loop is not ended by the number of attempts. A call has returned
\* only with a decoded (or undecodable) 2xx response, with a *RequestError
\* for a response whose method or status is not retriable, with the
\* transport's or the context's error, or with the builder's error; and after
\* a retriable response to a retriable method, however many requests went
\* before, the call is on its way to the next attempt.
C33_NoCapOnAttempts ==
    \A c \in Calls :
        /\ pc[c] = "done" =>
               \/ result[c].kind \in {"ok", "decodeErr"}
                      /\ lastStatus[c] >= 200 /\ lastStatus[c] <= 299
               \/ result[c].kind = "RequestError"
                      /\ ~(method[c] \in RetriableMethods
                              /\ lastStatus[c] \in RetriableStatuses)
               \/ result[c].kind = "transportErr" /\ transportFailed[c]
               \/ result[c].kind = "buildErr" /\ rerr[c] /\ sends[c] = 0
        /\ (method[c] \in RetriableMethods /\ lastStatus[c] \in RetriableStatuses
                /\ ~transportFailed[c]) =>
               pc[c] \in {"callback", "sleep"} /\ result[c] = NoResult

\* As many requests as the model follows went out, every one answered with a
\* retriable status, and the call is about to sleep and send once more.
C33_Witness ==
    \E c \in Calls :
        /\ sends[c] = MaxSends /\ nresp[c] = MaxSends /\ sleeps[c] = MaxSends - 1
        /\ pc[c] = "sleep" /\ result[c] = NoResult

\* The responses of a call that led to a retry: all it received, but for the
\* one that ended it.
Retried(c) ==
    IF pc[c] = "done" /\ result[c].kind \in {"ok", "decodeErr", "RequestError"}
      THEN nresp[c] - 1
      ELSE nresp[c]

\* The calls of the transport a finished call made: the requests it sent, and
\* one more when the last call of the transport failed on a context that was
\* cancelled already, without a request going out.
TransportCalls(c) ==
    IF transportFailed[c] /\ sends[c] = nresp[c] THEN sends[c] + 1 ELSE sends[c]

\* C34 as first stated, the count: with the callback registered, a call that
\* has returned after n sends (n >= 1) invoked it exactly n-1 times.
C34_OncePerRetry_Original ==
    \A c \in Calls :
        (onErrorWillRetry /\ pc[c] = "done" /\ sends[c] >= 1)
            => cbCount[c] = sends[c] - 1

\* C34: with the callback registered it has been invoked once for every
\* response that led to a retry, the one excepted whose callback is the next
\* thing to happen; the sleep that follows a retried response comes after its
\* callback; a 2xx response, a terminal error response and a transport error
\* invoke nothing. A call that returned after n >= 1 calls of the transport
\* invoked it n-1 times. Without a registered callback nothing is invoked.
C34_OncePerRetry ==
    \A c \in Calls :
        /\ ~onErrorWillRetry => cbCount[c] = 0
        /\ onErrorWillRetry =>
               /\ cbCount[c] = IF pc[c] = "callback" THEN Retried(c) - 1 ELSE Retried(c)
               /\ sleeps[c] = IF pc[c] = "sleep" THEN cbCount[c] - 1 ELSE cbCount[c]
               /\ (pc[c] = "done" /\ TransportCalls(c) >= 1) =>
                      cbCount[c] = TransportCalls(c) - 1
               /\ (pc[c] = "done" /\ TransportCalls(c) = 0) => cbCount[c] = 0

\* A call was answered 503 once, invoked the callback once, slept, and ended
\* on its cancelled context: one request sent, one invocation.
C34_Witness ==
    \E c \in Calls :
        /\ onErrorWillRetry /\ pc[c] = "done" /\ ctxDone[c]
        /\ result[c].kind = "transportErr"
        /\ sends[c] = 1 /\ nresp[c] = 1 /\ cbCount[c] = 1

-----------------------------------------------------------------------------
(* Claims about the attempts of one call (SpecHeaders)                     *)

\* C35: every request a call sent has the method, the URL and the headers of
\* the first one it sent; and from the moment the builder is handed to the
\* executor until the call is over, its method, path, parameters and headers
\* stay as they are.
C35_EveryAttemptSendsTheSameRequest ==
    /\ [](\A i \in 1 .. Len(sentReqs) :
              /\ sentReqs[i].method = sentReqs[1].method
              /\ sentReqs[i].url = sentReqs[1].url
              /\ sentReqs[i].headers = sentReqs[1].headers)
    /\ [][reqPc = "calling" =>
              /\ request'.method = request.method
              /\ request'.path = request.path
              /\ request'.params = request.params
              /\ request'.headers = request.headers]_vars

\* A GET with a header added by the caller went out three times.
C35_Witness ==
    /\ Len(sentReqs) = 3
    /\ sentReqs[3].method = "GET"
    /\ reqHist.calls >= 1
    /\ sleeps[ReqCall] = 2

-----------------------------------------------------------------------------
(* Claims about RequestError.Error (SpecMsg)                               *)

\* The message without what it says of the body.
Preamble ==
    <<72, 84, 84, 80, 32, 114, 101, 113, 117, 101, 115, 116, 32, 91, 71, 69, 84, 32, 104, 116, 116, 112, 115, 58, 47, 47, 112, 46, 97, 112, 105, 46, 115, 97, 110, 105, 116, 121, 46, 105, 111, 47, 118, 49, 47, 100, 97, 116, 97, 47, 113, 117, 101, 114, 121, 47, 100, 115, 93, 32, 102, 97, 105, 108, 101, 100, 32, 119, 105, 116, 104, 32, 115, 116, 97, 116, 117, 115, 32>>
        \o Itoa(reqOut.status)

\* What follows the preamble and its ": " in the message.
BodyPart == SubSeq(errMsg, Len(Preamble) + 3, Len(errMsg))

\* C36: the message of a *RequestError has the body whole, and nothing after
\* it, when the body is at most 500 bytes long; for a longer body it has the
\* first 500 bytes of it followed by " [... and N more bytes]" with N the
\* length of the body less 500, so never more than 500 bytes of the body.
C36_BodyIsCutAt500 ==
    errMsg # <<>> =>
        LET n == Len(reqOut.body)
        IN  /\ HasPrefix(errMsg, Preamble)
            /\ n = 0 => errMsg = Preamble
            /\ n > 0 => HasPrefix(errMsg, Preamble \o <<58, 32>>)
            /\ (n > 0 /\ n <= 500) => BodyPart = reqOut.body
            /\ n > 500 =>
                   /\ SubSeq(BodyPart, 1, 500) = SubSeq(reqOut.body, 1, 500)
                   /\ SubSeq(BodyPart, 501, Len(BodyPart)) =
                          AndMore \o Itoa(n - 500) \o MoreBytes
                   /\ Len(BodyPart) = 500 + Len(AndMore) + Len(Itoa(n - 500)) + Len(MoreBytes)

\* The message of an error with a body of 501 bytes ends in
\* " [... and 1 more bytes]", and the one of an error with 500 bytes does not.
C36_Witness ==
    /\ errMsg # <<>>
    /\ Len(reqOut.body) = 501
    /\ SubSeq(errMsg, Len(errMsg) - 22, Len(errMsg)) = <<32, 91, 46, 46, 46, 32, 97, 110, 100, 32, 49, 32, 109, 111, 114, 101, 32, 98, 121, 116, 101, 115, 93>>

-----------------------------------------------------------------------------
(* Claims about termination of the executor (LiveSpec)                     *)

\* The call has sent as many requests as the model follows and waits for
\* none to be answered: beyond this the model does not look.
AtHorizon(c) == pc[c] = "send" /\ sends[c] = MaxSends /\ ~ctxDone[c]

\* C37: under fair scheduling, with the context cancelled at some time or a
\* final answer given at some time, a call in progress returns (or, with a
\* server that has answered every request the model follows with a retriable
\* status and a context not cancelled, is at the model's horizon); and once
\* the context of a call in progress is cancelled the call returns.
C37_EveryCallReturns ==
    /\ (pc[LiveCall] \notin {"idle", "done"})
           ~> (pc[LiveCall] = "done" \/ AtHorizon(LiveCall))
    /\ (pc[LiveCall] \notin {"idle", "done"} /\ ctxDone[LiveCall])
           ~> (pc[LiveCall] = "done")

\* A call returned with the context's error after two retried responses.
C37_Witness ==
    /\ pc[LiveCall] = "done"
    /\ ctxDone[LiveCall]
    /\ result[LiveCall].kind = "transportErr"
    /\ sleeps[LiveCall] = 2
    /\ sends[LiveCall] = 2

-----------------------------------------------------------------------------
(* Claims about a PatchBuilder call whose value does not marshal (SpecMut)  *)

\* The entries of a Go map, made or not.
Entries(map) == map.m

\* What a patch holds: its fields, a map counted by its entries.
Content(patch) ==
    [id |-> patch.id, ifRevisionID |-> patch.ifRevisionID, query |-> patch.query,
     set |-> Entries(patch.set), setIfMissing |-> Entries(patch.setIfMissing),
     unset |-> patch.unset, insert |-> patch.insert,
     inc |-> Entries(patch.inc), dec |-> Entries(patch.dec)]

\* C39: a builder call in which a value fails to marshal leaves every patch
\* with the content it had: no entry is added to or taken from Set and
\* SetIfMissing, and the insert directive (or its absence) stays as it was,
\* item list included; no item is added to the list of mutations either.
C39_FailedMarshalLeavesPatchAsItWas ==
    [][mbHist'.failures # mbHist.failures =>
          /\ Len(mbItems') = Len(mbItems)
          /\ \A i \in 1 .. Len(mbItems) :
                 Content(mbItems'[i].patch) = Content(mbItems[i].patch)]_vars

\* A patch that had "p" set, and then a SetIfMissing whose value did not
\* marshal: the SetIfMissing map was made and is empty, and the entry of Set
\* is still there.
C39_Witness ==
    /\ Len(mbItems) = 1
    /\ mbHist.failures = <<"chan">>
    /\ mbItems[1].patch.setIfMissing = [nil |-> FALSE, m |-> << >>]
    /\ DOMAIN Entries(mbItems[1].patch.set) = {<<112>>}

-----------------------------------------------------------------------------
(* Claims about the result of MutationBuilder.Do (SpecMutOpts)              *)

\* C40: the MutateResult of a Do that returned no error carries the
\* transaction id of the response and its results in order.
C40_ResultCarriesTransactionIDAndResults ==
    mutPc = "done" /\ mutOut.err = "none" =>
        /\ ~mutResult.nil
        /\ mutResult.TransactionID = mutResp.transactionID
        /\ mutResult.Results = mutResp.results

====
